---- MODULE Spec2Model ----
(***************************************************************************)
(* Asset synchronisation and idempotent publishing engine of               *)
(* excentrico-tools-go: the drive reconcile stage, the media upload stage  *)
(* and the post upsert stage of one film, run strictly one after another   *)
(* against a metadata store keyed by (film id, record type).               *)
(*                                                                         *)
(* Text is modelled as sequences of one-character strings so that the      *)
(* string conversions of the code (ToLower, TrimSpace, Split, TrimSuffix)  *)
(* are computed character by character.                                    *)
(***************************************************************************)
EXTENDS Integers, Sequences, FiniteSets, TLC

\* ------------------------------------------------------------------------
\* Bounds of the model
\* ------------------------------------------------------------------------

\* number of ProcessSingleFilm runs explored
MaxRuns == 2

\* number of injected failures (store, network, disk) over one behaviour
MaxFaults == 1

\* ------------------------------------------------------------------------
\* Text helpers
\* ------------------------------------------------------------------------

Upper == <<"A","B","C","D","E","F","G","H","I","J","K","L","M",
           "N","O","P","Q","R","S","T","U","V","W","X","Y","Z">>

Lower == <<"a","b","c","d","e","f","g","h","i","j","k","l","m",
           "n","o","p","q","r","s","t","u","v","w","x","y","z">>

ToLowerChar(c) ==
    IF \E i \in 1..26 : Upper[i] = c
    THEN Lower[CHOOSE i \in 1..26 : Upper[i] = c]
    ELSE c

ToLower(s) == [i \in 1..Len(s) |-> ToLowerChar(s[i])]

IsSpace(c) == c \in {" ", "\t", "\n", "\r"}

RECURSIVE TrimLeft(_)
TrimLeft(s) ==
    IF s # <<>> /\ IsSpace(Head(s)) THEN TrimLeft(Tail(s)) ELSE s

RECURSIVE TrimRight(_)
TrimRight(s) ==
    IF s # <<>> /\ IsSpace(s[Len(s)])
    THEN TrimRight(SubSeq(s, 1, Len(s) - 1))
    ELSE s

TrimSpace(s) == TrimRight(TrimLeft(s))

HasSuffix(s, suf) ==
    /\ Len(s) >= Len(suf)
    /\ SubSeq(s, Len(s) - Len(suf) + 1, Len(s)) = suf

TrimSuffix(s, suf) ==
    IF HasSuffix(s, suf) THEN SubSeq(s, 1, Len(s) - Len(suf)) ELSE s

\* index of the last occurrence of character c in s, 0 when absent
LastIndex(s, c) ==
    IF \E i \in 1..Len(s) : s[i] = c
    THEN CHOOSE i \in 1..Len(s) : s[i] = c /\ \A j \in (i+1)..Len(s) : s[j] # c
    ELSE 0

\* strings.Split(s, "/")[len-1]: the text after the last separator
LastPart(s, c) == SubSeq(s, LastIndex(s, c) + 1, Len(s))

Slash == "/"

\* filepath.Join of a directory and a name, relative to the film directory
PathJoin(dir, name) == IF dir = <<>> THEN name ELSE dir \o <<Slash>> \o name

\* filepath.Dir and filepath.Base of a path relative to the film directory
PathDir(p) ==
    IF LastIndex(p, Slash) = 0 THEN <<>> ELSE SubSeq(p, 1, LastIndex(p, Slash) - 1)

PathBase(p) == LastPart(p, Slash)

WebSuffix == <<"_","w","e","b",".","j","p","g">>

\* utils.GetOptimizedImagePath: <dir>/<name without extension>_web.jpg
GetOptimizedImagePath(originalPath) ==
    LET filename == PathBase(originalPath)
        dot == LastIndex(filename, ".")
        nameWithoutExt == IF dot = 0 THEN filename ELSE SubSeq(filename, 1, dot - 1)
    IN  PathJoin(PathDir(originalPath), nameWithoutExt \o WebSuffix)

\* ------------------------------------------------------------------------
\* MIME types and the image test
\* ------------------------------------------------------------------------

\* "application/vnd.google-apps.folder"
FolderMime ==
    <<"a","p","p","l","i","c","a","t","i","o","n","/","v","n","d",".","g","o","o","g","l","e","-","a","p","p","s",".","f","o","l","d","e","r">>

MimeJpeg == <<"i","m","a","g","e","/","j","p","e","g">>
MimeJpg  == <<"i","m","a","g","e","/","j","p","g">>
MimePng  == <<"i","m","a","g","e","/","p","n","g">>
MimeGif  == <<"i","m","a","g","e","/","g","i","f">>
MimeWebp == <<"i","m","a","g","e","/","w","e","b","p">>
MimeBmp  == <<"i","m","a","g","e","/","b","m","p">>
MimeTiff == <<"i","m","a","g","e","/","t","i","f","f">>
MimePNGUpper == <<"I","M","A","G","E","/","P","N","G">>
MimeText == <<"t","e","x","t">>

IsImageFile(mimeType) ==
    \E imgType \in {MimeJpeg, MimeJpg, MimePng, MimeGif, MimeWebp, MimeBmp, MimeTiff} :
        ToLower(mimeType) = ToLower(imgType)

\* ------------------------------------------------------------------------
\* Allow-list of folders
\* ------------------------------------------------------------------------

AllowedFolders ==
    { <<"b","a","c","k","g","r","o","u","n","d">>,
      <<"f","e","a","t","u","r","e","d"," ","i","m","a","g","e">>,
      <<"s","t","i","l","l","s">>,
      <<"d","i","r">> }

\* mutant: the test for the empty folder name is missing and a folder whose
\* name merely starts with an allow-listed name passes
isAllowedFolder_Prefix(folderName) ==
    \/ folderName = <<>>
    \/ \E a \in AllowedFolders :
          /\ Len(folderName) >= Len(a)
          /\ ToLower(SubSeq(folderName, 1, Len(a))) = a

isAllowedFolder(folderName) ==
    IF folderName = <<>> THEN FALSE
    ELSE ToLower(TrimSpace(folderName)) \in AllowedFolders

\* ------------------------------------------------------------------------
\* utils.SanitizeFilename: the persistent identity of a film
\* ------------------------------------------------------------------------

InvalidChars == {"<", ">", ":", "\"", "/", "\\", "|", "?", "*"}

ReplaceInvalid(s) == [i \in 1..Len(s) |-> IF s[i] \in InvalidChars THEN "_" ELSE s[i]]

RECURSIVE TrimDots(_)
TrimDots(s) ==
    IF s # <<>> /\ Head(s) = "." THEN TrimDots(Tail(s))
    ELSE IF s # <<>> /\ s[Len(s)] = "." THEN TrimDots(SubSeq(s, 1, Len(s) - 1))
    ELSE s

\* every run of whitespace becomes one space
RECURSIVE CollapseSpaces(_)
CollapseSpaces(s) ==
    IF s = <<>> THEN <<>>
    ELSE IF IsSpace(Head(s))
         THEN <<" ">> \o CollapseSpaces(TrimLeft(s))
         ELSE <<Head(s)>> \o CollapseSpaces(Tail(s))

UnnamedFilm == <<"u","n","n","a","m","e","d","_","f","i","l","m">>

SanitizeFilename(name) ==
    LET sanitized == CollapseSpaces(TrimDots(TrimSpace(ReplaceInvalid(name))))
    IN  IF sanitized = <<>> THEN UnnamedFilm ELSE sanitized

\* ------------------------------------------------------------------------
\* The remote file store: folder id -> listing of its children
\* ------------------------------------------------------------------------

NameDir      == <<"D","i","r">>
NameDirUpper == <<"D","I","R">>
NameDirSpace == <<"D","i","r"," ">>
NameRandom   == <<"R","a","n","d","o","m"," ","F","o","l","d","e","r">>

FileA == <<"a",".","p","n","g">>
FileB == <<"p","o","s","t","e","r",".","p","n","g">>
FileC == <<"c",".","p","n","g">>
FileR == <<"r",".","p","n","g">>
FileN == <<"n",".","t","x","t">>

Item(id, name, mime) == [Id |-> id, Name |-> name, MimeType |-> mime]

RootFolder == "root"

\* the remote trees a scan may find; remote ids are stable across them
Trees ==
    << \* a and b allow-listed, c in a foreign folder, r directly in the root
       [ root |-> << Item("f1", NameDir, FolderMime),
                     Item("f2", NameRandom, FolderMime),
                     Item("r", FileR, MimePng) >>,
         f1   |-> << Item("a", FileA, MimePng), Item("b", FileB, MimePng) >>,
         f2   |-> << Item("c", FileC, MimePng) >> ],
       \* a is gone; b sits in a folder whose name differs by a trailing blank,
       \* next to a text file; c has been renamed like b and moved into an
       \* allow-listed folder nested in the foreign one
       [ root |-> << Item("f4", NameDirSpace, FolderMime),
                     Item("f2", NameRandom, FolderMime) >>,
         f4   |-> << Item("b", FileB, MimePNGUpper), Item("n", FileN, MimeText) >>,
         f2   |-> << Item("f5", NameDirUpper, FolderMime) >>,
         f5   |-> << Item("c", FileB, MimeJpeg) >> ] >>

TreeIds == 1..Len(Trees)

FolderIds(tree) == DOMAIN tree

\* ------------------------------------------------------------------------
\* Remote Tree Scanner
\* ------------------------------------------------------------------------

FileWithPath(item, currentPath) ==
    [ ID         |-> item.Id,
      Name       |-> item.Name,
      MimeType   |-> item.MimeType,
      FolderPath |-> currentPath,
      FolderName |-> IF currentPath # <<>> THEN LastPart(currentPath, Slash) ELSE <<>> ]

\* mutant: a subfolder that cannot be listed ends the loop over its siblings
AfterSubfolder_StopsAtFailure(sub, rest) ==
    IF sub.err THEN <<>> ELSE sub.files \o rest

\* the files of a subfolder are appended; a subfolder that cannot be listed
\* is skipped and the loop goes on with its siblings
AfterSubfolder(sub, rest) ==
    IF sub.err THEN rest ELSE sub.files \o rest

RECURSIVE ListAllFilesRecursivelyWithPath(_, _, _, _)
RECURSIVE ScanItems(_, _, _, _, _)

\* the loop over the children of one folder, from child i on
ScanItems(tree, failList, items, i, currentPath) ==
    IF i > Len(items) THEN <<>>
    ELSE LET item == items[i]
             rest == ScanItems(tree, failList, items, i + 1, currentPath)
         IN  IF item.MimeType = FolderMime
             THEN LET newPath == IF currentPath = <<>> THEN item.Name
                                 ELSE currentPath \o <<Slash>> \o item.Name
                      sub == ListAllFilesRecursivelyWithPath(tree, failList, item.Id, newPath)
                  IN  AfterSubfolder(sub, rest)
             ELSE <<FileWithPath(item, currentPath)>> \o rest

\* failList: the folders whose listing fails during this scan
ListAllFilesRecursivelyWithPath(tree, failList, folderID, currentPath) ==
    IF folderID \in failList
    THEN [err |-> TRUE, files |-> <<>>]
    ELSE [err |-> FALSE, files |-> ScanItems(tree, failList, tree[folderID], 1, currentPath)]

ListAllFilesRecursively(tree, failList, folderID) ==
    ListAllFilesRecursivelyWithPath(tree, failList, folderID, <<>>)

\* ------------------------------------------------------------------------
\* utils.ExtractFileIDFromURL
\* ------------------------------------------------------------------------

Digits == {"0","1","2","3","4","5","6","7","8","9"}

IsIdChar(c) ==
    \/ \E i \in 1..26 : Upper[i] = c \/ Lower[i] = c
    \/ c \in Digits
    \/ c \in {"-", "_"}

MatchAt(s, i, pat) ==
    /\ i >= 1
    /\ i + Len(pat) - 1 <= Len(s)
    /\ SubSeq(s, i, i + Len(pat) - 1) = pat

\* the longest run of characters satisfying Test that starts at position i
RECURSIVE RunFrom(_, _, _)
RunFrom(s, i, digitsOnly) ==
    IF i <= Len(s) /\ (IF digitsOnly THEN s[i] \in Digits ELSE IsIdChar(s[i]))
    THEN <<s[i]>> \o RunFrom(s, i + 1, digitsOnly)
    ELSE <<>>

\* leftmost match of  marker([a-zA-Z0-9-_]+) , its group or <<>>
MatchGroup(s, marker) ==
    LET hits == {i \in 1..Len(s) :
                    MatchAt(s, i, marker) /\ RunFrom(s, i + Len(marker), FALSE) # <<>>}
    IN  IF hits = {} THEN <<>>
        ELSE LET i == CHOOSE h \in hits : \A g \in hits : h <= g
             IN  RunFrom(s, i + Len(marker), FALSE)

PatDriveU   == <<"/","d","r","i","v","e","/","u","/">>
PatFolders  == <<"/","f","o","l","d","e","r","s","/">>
PatDriveFolders == <<"/","d","r","i","v","e","/","f","o","l","d","e","r","s","/">>
PatFileD    == <<"/","f","i","l","e","/","d","/">>
PatIdEq     == <<"i","d","=">>
PatD        == <<"/","d","/">>

\* leftmost match of  /drive/u/\d+/folders/([a-zA-Z0-9-_]+)
MatchDriveU(s) ==
    LET After(i) == i + Len(PatDriveU) + Len(RunFrom(s, i + Len(PatDriveU), TRUE))
        hits == {i \in 1..Len(s) :
                    /\ MatchAt(s, i, PatDriveU)
                    /\ RunFrom(s, i + Len(PatDriveU), TRUE) # <<>>
                    /\ MatchAt(s, After(i), PatFolders)
                    /\ RunFrom(s, After(i) + Len(PatFolders), FALSE) # <<>>}
    IN  IF hits = {} THEN <<>>
        ELSE LET i == CHOOSE h \in hits : \A g \in hits : h <= g
             IN  RunFrom(s, After(i) + Len(PatFolders), FALSE)

ExtractFileIDFromURL(url) ==
    IF MatchDriveU(url) # <<>> THEN MatchDriveU(url)
    ELSE IF MatchGroup(url, PatDriveFolders) # <<>> THEN MatchGroup(url, PatDriveFolders)
    ELSE IF MatchGroup(url, PatFileD) # <<>> THEN MatchGroup(url, PatFileD)
    ELSE IF MatchGroup(url, PatIdEq) # <<>> THEN MatchGroup(url, PatIdEq)
    ELSE IF MatchGroup(url, PatD) # <<>> THEN MatchGroup(url, PatD)
    ELSE MatchGroup(url, PatFolders)

\* ------------------------------------------------------------------------
\* The sheet row of the film
\* ------------------------------------------------------------------------

TituloOriginal == <<"L","e"," ","F","i","l","m">>
Seccion == <<"D","r","a","m","a">>
Year == <<"2","0","2","5">>

UrlFolders == <<"h","t","t","p","s",":","/","/","d","r","i","v","e",".","g","o","o","g","l","e",".","c","o","m","/","d","r","i","v","e","/","f","o","l","d","e","r","s","/","r","o","o","t","?","u","s","p","=","s","h","a","r","i","n","g">>
UrlBad     == <<"h","t","t","p","s",":","/","/","e","x","a","m","p","l","e",".","o","r","g","/","x">>

\* the ENLACES cell of the row, as read for one run
EnlacesValues == {<<>>, UrlFolders, UrlBad}

\* a cell the row does not have
Absent == <<"(absent)">>

Row(enlaces) ==
    [TITULO_ORIGINAL |-> TituloOriginal, Name |-> Absent, SECCION |-> Seccion,
     ENLACES |-> enlaces]

\* app.processFilteredObjects: the film name handed to ProcessSingleFilm
FilmNameOf(o) ==
    IF o.TITULO_ORIGINAL # Absent THEN o.TITULO_ORIGINAL
    ELSE IF o.Name # Absent THEN o.Name
    ELSE UnnamedFilm

FilmIDs == {SanitizeFilename(TituloOriginal)}

\* ------------------------------------------------------------------------
\* Metadata store: (film id, record type) -> serialized record
\* ------------------------------------------------------------------------

RecordTypes == {"drive_files", "wp_images", "wordpress_media", "wordpress"}

NotFound == "metadata not found"

Rec(data) == [found |-> TRUE, data |-> data]
NoRec == [found |-> FALSE, data |-> <<>>]

RecordKeys == FilmIDs \X RecordTypes

\* ------------------------------------------------------------------------
\* Injected failures of one stage
\* ------------------------------------------------------------------------

Fault(k, id, v) == [k |-> k, id |-> id, v |-> v]

\* all sets of at most n elements of S
RECURSIVE SubsetsUpTo(_, _)
SubsetsUpTo(S, n) ==
    IF n <= 0 THEN {{}}
    ELSE LET prev == SubsetsUpTo(S, n - 1)
         IN  prev \cup {p \cup {x} : p \in prev, x \in S}

\* ------------------------------------------------------------------------
\* State
\* ------------------------------------------------------------------------

VARIABLES
    store,      \* metadata store: (film id, record type) -> record
    disk,       \* film id -> paths present below the film directory
    wpMedia,    \* media of the content backend, in upload order; id = position
    wpPosts,    \* posts of the content backend, in creation order; id = position
    pc,         \* position inside ProcessSingleFilm
    obj,        \* the sheet row of the run in progress
    imageIds,   \* media ids handed from the media stage to the upsert stage
    runs,       \* ProcessSingleFilm calls started
    faults,     \* failures injected so far
    drv,        \* what the last drive stage did
    up,         \* what the last media stage did
    prevUp,     \* what the media stage before that did
    ups,        \* what the last upsert stage did
    upsertLog,  \* the backend call and the outcome of every upsert stage so far
    result,     \* outcome of the last finished ProcessSingleFilm call
    successCount, \* processFilteredObjects: films that returned no error
    errorCount,   \* processFilteredObjects: films that returned an error
    arg,        \* the argument of a function applied on its own
    ret         \* what the function returned

pipelineVars == <<store, disk, wpMedia, wpPosts, pc, obj, imageIds, runs, faults,
                  drv, up, prevUp, ups, upsertLog, result, successCount, errorCount>>

vars == <<pipelineVars, arg, ret>>

\* the pipeline applies no function on its own
NoCall == [done |-> FALSE]

NoDrv == [op |-> "none"]
NoUp  == [op |-> "none"]
NoUps == [op |-> "none"]

\* nothing persisted, nothing on disk, nothing on the backend, no film begun
FreshStart ==
    /\ store = [key \in RecordKeys |-> NoRec]
    /\ disk = [id \in FilmIDs |-> {}]
    /\ wpMedia = <<>>
    /\ wpPosts = <<>>
    /\ pc = "idle"
    /\ obj = Row(<<>>)
    /\ imageIds = <<>>
    /\ runs = 0
    /\ faults = 0
    /\ drv = NoDrv
    /\ up = NoUp
    /\ prevUp = NoUp
    /\ ups = NoUps
    /\ upsertLog = <<>>
    /\ result = "none"
    /\ successCount = 0
    /\ errorCount = 0

Init ==
    /\ FreshStart
    /\ arg = NoCall
    /\ ret = NoCall

Budget == MaxFaults - faults

\* processFilteredObjects: the rows of the sheet are processed one after
\* another, each handed to ProcessSingleFilm; runs counts the calls
processedCount == runs

\* mutant: a film that failed is not counted
Tally_ErrorsDropped(err, successes, errors) ==
    IF err # "nil" THEN [successCount |-> successes, errorCount |-> errors]
    ELSE [successCount |-> successes + 1, errorCount |-> errors]

\* the tally after ProcessSingleFilm returned err
Tally(err, successes, errors) ==
    IF err # "nil" THEN [successCount |-> successes, errorCount |-> errors + 1]
    ELSE [successCount |-> successes + 1, errorCount |-> errors]

\* the loop body after the call: counted when ProcessSingleFilm has returned
Counted ==
    IF pc' = "idle"
    THEN \E t \in {Tally(result', successCount, errorCount)} :
            /\ successCount' = t.successCount
            /\ errorCount' = t.errorCount
    ELSE UNCHANGED <<successCount, errorCount>>

\* ------------------------------------------------------------------------
\* ProcessSingleFilm, first step: the film directory
\* ------------------------------------------------------------------------

\* mutant: the next stage runs whatever the stage before it returned
AfterStage_GoesOn(err, next) == next

\* where ProcessSingleFilm goes after a stage: on to the next stage, or out
\* of the film with the error of the stage
AfterStage(err, next) == IF err = "nil" THEN next ELSE "idle"

BeginFilm ==
    /\ pc = "idle"
    /\ UNCHANGED <<arg, ret>>
    /\ runs < MaxRuns
    /\ runs' = runs + 1
    /\ \E enlaces \in EnlacesValues : obj' = Row(enlaces)
    /\ \E F \in SubsetsUpTo({Fault("mkdir", "filmDir", "fail")}, Budget) :
          /\ faults' = faults + Cardinality(F)
          /\ pc' = AfterStage(IF F # {} THEN "failed to create directory" ELSE "nil",
                               "drive")
          /\ result' = IF F # {} THEN "failed to create directory" ELSE "running"
    /\ drv' = NoDrv
    /\ up' = NoUp
    /\ ups' = NoUps
    /\ prevUp' = IF up.op = "media" THEN up ELSE prevUp
    /\ Counted
    /\ UNCHANGED <<store, disk, wpMedia, wpPosts, imageIds, upsertLog>>

\* The metadata store is a remote database, the film directory is local: a
\* run may start where the local files of earlier runs are gone
LocalDirLost ==
    /\ pc = "idle"
    /\ UNCHANGED <<arg, ret>>
    /\ runs < MaxRuns
    /\ Budget > 0
    /\ \E id \in FilmIDs :
          /\ disk[id] # {}
          /\ disk' = [disk EXCEPT ![id] = {}]
    /\ faults' = faults + 1
    /\ UNCHANGED <<store, wpMedia, wpPosts, pc, obj, imageIds, runs,
                   drv, up, prevUp, ups, upsertLog, result, successCount, errorCount>>

\* ------------------------------------------------------------------------
\* Change-Detection Engine: drive.ProcessGoogleDriveFiles
\* ------------------------------------------------------------------------

LocalPath(f) == PathJoin(f.FolderPath, f.Name)

Has(F, k, id, v) == Fault(k, id, v) \in F

\* os.MkdirAll of the sub-directory of file f fails
MkdirFails(F, f) == f.FolderPath # <<>> /\ Has(F, "mkdir", f.ID, "fail")

FilterFiles(allFiles) ==
    SelectSeq(allFiles, LAMBDA f : IsImageFile(f.MimeType) /\ isAllowedFolder(f.FolderName))

SeqIds(files) == {files[i].ID : i \in 1..Len(files)}

\* mutant: without a snapshot a file found on disk counts as unchanged
Classify_StatWithoutSnapshot(f, readOutcome, existingFiles, d, F) ==
    IF readOutcome = "ok" /\ f.ID \notin SeqIds(existingFiles) THEN "new"
    ELSE IF MkdirFails(F, f) THEN "skipped"
    ELSE IF LocalPath(f) \notin d THEN (IF readOutcome = "ok" THEN "missing" ELSE "new")
    ELSE "unchanged"

\* classification of one filtered file against the loaded snapshot
Classify(f, readOutcome, existingFiles, d, F) ==
    IF readOutcome # "ok" THEN "new"
    ELSE IF f.ID \in SeqIds(existingFiles)
         THEN IF MkdirFails(F, f) THEN "skipped"
              ELSE IF LocalPath(f) \notin d THEN "missing" ELSE "unchanged"
         ELSE "new"

\* mutant: the download set is drawn from the whole scan, not the filtered set
FilesToDownload_FromScan(filteredFiles, allFiles, readOutcome, existingFiles, d, F) ==
    SelectSeq(allFiles,
              LAMBDA f : Classify(f, readOutcome, existingFiles, d, F) \in {"new", "missing"})

\* the download set: the filtered files classified new or missing
FilesToDownload(filteredFiles, allFiles, readOutcome, existingFiles, d, F) ==
    SelectSeq(filteredFiles,
              LAMBDA f : Classify(f, readOutcome, existingFiles, d, F) \in {"new", "missing"})

\* mutant: only the files of the download set are persisted
SnapshotToSave_DownloadsOnly(filteredFiles, filesToDownload) == filesToDownload

\* the snapshot handed to SaveDriveFilesMetadata
SnapshotToSave(filteredFiles, filesToDownload) == filteredFiles

\* the download loop: the files whose download is attempted
DownloadAttempts(filesToDownload, F) ==
    SelectSeq(filesToDownload, LAMBDA f : ~MkdirFails(F, f))

\* outcome of the download of file f: ok, nofile (nothing written), partial
DownloadOutcome(F, f) ==
    IF Has(F, "dl", f.ID, "nofile") THEN "nofile"
    ELSE IF Has(F, "dl", f.ID, "partial") THEN "partial"
    ELSE "ok"

DiskAfterDownloads(d, attempts, F) ==
    d \cup {LocalPath(attempts[i]) :
               i \in {j \in 1..Len(attempts) : DownloadOutcome(F, attempts[j]) # "nofile"}}

\* outcome of the optimisation of file f: ok, or nofile (nothing written)
ResizeOutcome(F, f) ==
    IF Has(F, "resize", f.ID, "nofile") THEN "nofile" ELSE "ok"

\* the optimisation loop over the filtered files, from file i on
RECURSIVE OptimizeLoop(_, _, _, _, _)
OptimizeLoop(files, i, d, resized, F) ==
    IF i > Len(files) THEN [disk |-> d, resized |-> resized]
    ELSE LET f == files[i]
             originalPath == LocalPath(f)
             optimizedPath == GetOptimizedImagePath(originalPath)
         IN  IF originalPath \in d /\ optimizedPath \notin d
             THEN OptimizeLoop(files, i + 1,
                               IF ResizeOutcome(F, f) = "nofile" THEN d
                               ELSE d \cup {optimizedPath},
                               resized \cup {f.ID}, F)
             ELSE OptimizeLoop(files, i + 1, d, resized, F)

TreeFileIds(tree) ==
    UNION {{tree[fo][i].Id : i \in 1..Len(tree[fo])} : fo \in DOMAIN tree} \ DOMAIN tree

\* the failures that can strike one drive stage over the given tree: of the
\* listing of a folder, of the download, sub-directory or optimisation of a
\* file the filter lets through, of the snapshot load and of the snapshot save
DriveFaultPoints(tree) ==
    LET ids == SeqIds(FilterFiles(ListAllFilesRecursively(tree, {}, RootFolder).files))
    IN  {Fault("list", fo, "fail") : fo \in FolderIds(tree)}
        \cup {Fault("dl", id, v) : id \in ids, v \in {"nofile", "partial"}}
        \cup {Fault("resize", id, "nofile") : id \in ids}
        \cup {Fault("mkdir", id, "fail") : id \in ids}
        \cup {Fault("read", "drive_files", "fail"), Fault("save", "drive_files", "fail")}

\* the whole of ProcessGoogleDriveFiles for film name filmName, as a record
\* of everything it computes; d and snapshot are the disk and the persisted
\* drive_files record it starts from
DrivePass(filmName, enlacesStr, tree, F, d, snapshot) ==
    LET folderID == ExtractFileIDFromURL(enlacesStr)
        failList == {fo \in FolderIds(tree) : Has(F, "list", fo, "fail")}
        scan == ListAllFilesRecursively(tree, failList, RootFolder)
        filteredFiles == FilterFiles(scan.files)
        readOutcome == IF Has(F, "read", "drive_files", "fail") THEN "error"
                       ELSE IF snapshot.found THEN "ok" ELSE "notfound"
        existingFiles == IF readOutcome = "ok" THEN snapshot.data ELSE <<>>
        class == [i \in 1..Len(filteredFiles) |->
                      Classify(filteredFiles[i], readOutcome, existingFiles, d, F)]
        toIdx == {i \in 1..Len(filteredFiles) : class[i] \in {"new", "missing"}}
        filesToDownload == FilesToDownload(filteredFiles, scan.files, readOutcome,
                                           existingFiles, d, F)
        attempts == DownloadAttempts(filesToDownload, F)
        d1 == DiskAfterDownloads(d, attempts, F)
        opt == OptimizeLoop(filteredFiles, 1, d1, {}, F)
        saveFails == Has(F, "save", "drive_files", "fail")
    IN  IF folderID = <<>>
        THEN [op |-> "drive", err |-> "could not extract folder ID", disk |-> d,
              snapshot |-> snapshot, allFiles |-> <<>>, filteredFiles |-> <<>>,
              filesToDownload |-> <<>>, attempts |-> <<>>, resized |-> {},
              newCount |-> 0, missingCount |-> 0, existingCount |-> 0,
              readOutcome |-> "none", failList |-> failList,
              class |-> <<>>, present |-> {}]
        ELSE IF scan.err
        THEN [op |-> "drive", err |-> "failed to list files", disk |-> d,
              snapshot |-> snapshot, allFiles |-> <<>>, filteredFiles |-> <<>>,
              filesToDownload |-> <<>>, attempts |-> <<>>, resized |-> {},
              newCount |-> 0, missingCount |-> 0, existingCount |-> 0,
              readOutcome |-> "none", failList |-> failList,
              class |-> <<>>, present |-> {}]
        ELSE [op |-> "drive",
              err |-> IF saveFails THEN "failed to save Drive media metadata" ELSE "nil",
              disk |-> opt.disk,
              snapshot |-> IF saveFails THEN snapshot
                           ELSE Rec(SnapshotToSave(filteredFiles, filesToDownload)),
              allFiles |-> scan.files,
              filteredFiles |-> filteredFiles,
              filesToDownload |-> filesToDownload,
              attempts |-> attempts,
              resized |-> opt.resized,
              newCount |-> IF readOutcome = "ok"
                           THEN Cardinality({i \in toIdx : class[i] = "new"})
                           ELSE Len(filteredFiles),
              missingCount |-> Cardinality({i \in toIdx : class[i] = "missing"}),
              existingCount |-> Cardinality({i \in 1..Len(filteredFiles) : class[i] = "unchanged"}),
              readOutcome |-> readOutcome, failList |-> failList,
              class |-> class,
              present |-> {filteredFiles[i].ID :
                              i \in {j \in 1..Len(filteredFiles) :
                                         LocalPath(filteredFiles[j]) \in d}}]

\* ProcessSingleFilm, drive branch: ENLACES holds a non-empty string
ProcessGoogleDriveFiles ==
    /\ pc = "drive"
    /\ UNCHANGED <<arg, ret>>
    /\ obj.ENLACES \notin {Absent, <<>>}
    /\ \E t \in TreeIds :
       \E F \in SubsetsUpTo(DriveFaultPoints(Trees[t]), Budget) :
       \E filmID \in {SanitizeFilename(FilmNameOf(obj))} :
       \E r \in {DrivePass(FilmNameOf(obj), obj.ENLACES, Trees[t], F,
                           disk[filmID], store[<<filmID, "drive_files">>])} :
              /\ faults' = faults + Cardinality(F)
              /\ drv' = [treeId |-> t] @@
                         [r EXCEPT !.disk = {}, !.snapshot = store[<<filmID, "drive_files">>]]
              /\ disk' = [disk EXCEPT ![filmID] = r.disk]
              /\ store' = [store EXCEPT ![<<filmID, "drive_files">>] = r.snapshot]
              /\ pc' = AfterStage(r.err, "media")
              /\ result' = IF r.err = "nil" THEN result
                            ELSE "failed to process Google Drive files"
    /\ Counted
    /\ UNCHANGED <<wpMedia, wpPosts, obj, imageIds, runs, up, prevUp, ups, upsertLog>>

\* ProcessSingleFilm, drive branch: ENLACES is empty, the stage is skipped
NoEnlaces ==
    /\ pc = "drive"
    /\ UNCHANGED <<arg, ret>>
    /\ obj.ENLACES \in {Absent, <<>>}
    /\ pc' = "media"
    /\ UNCHANGED <<store, disk, wpMedia, wpPosts, obj, imageIds, runs, faults,
                   drv, up, prevUp, ups, upsertLog, result, successCount, errorCount>>

\* ------------------------------------------------------------------------
\* filepath.Walk: the files below the film directory in lexical order
\* ------------------------------------------------------------------------

\* the characters of the model in byte order
ByteOrder ==
    <<" ", "-", ".", "/">> \o
    <<"0","1","2","3","4","5","6","7","8","9">> \o Upper \o <<"_">> \o Lower

ByteRank(c) ==
    IF \E i \in 1..Len(ByteOrder) : ByteOrder[i] = c
    THEN CHOOSE i \in 1..Len(ByteOrder) : ByteOrder[i] = c
    ELSE 0

\* a < b as Go strings
RECURSIVE StrLess(_, _)
StrLess(a, b) ==
    IF b = <<>> THEN FALSE
    ELSE IF a = <<>> THEN TRUE
    ELSE IF Head(a) = Head(b) THEN StrLess(Tail(a), Tail(b))
    ELSE ByteRank(Head(a)) < ByteRank(Head(b))

FirstIndex(s, c) ==
    IF \E i \in 1..Len(s) : s[i] = c
    THEN CHOOSE i \in 1..Len(s) : s[i] = c /\ \A j \in 1..(i-1) : s[j] # c
    ELSE 0

\* Walk visits the entries of a directory sorted by name, directory by
\* directory: p comes before q when, at the first path element where they
\* differ, the element of p is the smaller name
RECURSIVE WalkBefore(_, _)
WalkBefore(p, q) ==
    LET ip == FirstIndex(p, Slash)
        iq == FirstIndex(q, Slash)
        hp == IF ip = 0 THEN p ELSE SubSeq(p, 1, ip - 1)
        hq == IF iq = 0 THEN q ELSE SubSeq(q, 1, iq - 1)
    IN  IF hp # hq THEN StrLess(hp, hq)
        ELSE IF ip = 0 THEN iq # 0
        ELSE IF iq = 0 THEN FALSE
        ELSE WalkBefore(SubSeq(p, ip + 1, Len(p)), SubSeq(q, iq + 1, Len(q)))

RECURSIVE WalkOrder(_)
WalkOrder(S) ==
    IF S = {} THEN <<>>
    ELSE LET first == CHOOSE p \in S : \A q \in S \ {p} : WalkBefore(p, q)
         IN  <<first>> \o WalkOrder(S \ {first})

\* the walk callback of UploadMediaToWordPress: files ending in _web.jpg
WebFiles(d) ==
    WalkOrder({p \in d : HasSuffix(ToLower(PathBase(p)), WebSuffix)})

\* ------------------------------------------------------------------------
\* Media Publisher: wordpress.UploadMediaToWordPress
\* ------------------------------------------------------------------------

TitleSep == <<" ","-"," ">>
AltPrefix == <<"I","m","a","g","e"," ","f","r","o","m"," ">>

\* outcome of an upload: ok, fail (nothing stored by the backend), lost
\* (the backend stored the medium, the client saw an error)
UploadOutcome(F, i) ==
    IF Has(F, "upload", ToString(i), "fail") THEN "fail"
    ELSE IF Has(F, "upload", ToString(i), "lost") THEN "lost"
    ELSE "ok"

\* mutant: the dedup test is missing
AlreadyUploaded_NoDedup(fileName, existingImageMetadata) == FALSE

\* the dedup test of the upload loop
AlreadyUploaded(fileName, existingImageMetadata) ==
    fileName \in DOMAIN existingImageMetadata

\* mutant: a failed upload ends the loop
AfterFailedUpload_Abort(webFiles, i) == Len(webFiles) + 1

\* the index the loop goes on with after the upload of web file i failed
AfterFailedUpload(webFiles, i) == i + 1

\* the upload loop from web file i on; acc carries the backend media, the
\* ledger entries of this pass and the in-memory filename -> media-id map
RECURSIVE UploadLoop(_, _, _, _, _, _, _)
UploadLoop(webFiles, i, existingImageMetadata, filmTitle, postID, F, acc) ==
    IF i > Len(webFiles) THEN acc
    ELSE LET webFile == webFiles[i]
             fileName == PathBase(webFile)
             title == filmTitle \o TitleSep \o TrimSuffix(fileName, WebSuffix)
             altText == AltPrefix \o filmTitle
             outcome == UploadOutcome(F, i)
             mediaID == Len(acc.media) + 1
             media == [id |-> mediaID, filmID |-> SanitizeFilename(filmTitle),
                       fileName |-> fileName, title |-> title,
                       alt_text |-> altText, acked |-> outcome = "ok"]
             mediaInfo == [id |-> mediaID, title |-> title, file_path |-> webFile,
                           alt_text |-> altText, post_id |-> postID]
         IN  IF AlreadyUploaded(fileName, existingImageMetadata)
             THEN UploadLoop(webFiles, i + 1, existingImageMetadata, filmTitle, postID, F,
                             [acc EXCEPT !.skipped = @ + 1,
                                         !.outcomes = Append(@, "skipped")])
             ELSE IF outcome = "fail"
             THEN UploadLoop(webFiles, AfterFailedUpload(webFiles, i),
                             existingImageMetadata, filmTitle, postID, F,
                             [acc EXCEPT !.failed = @ + 1,
                                         !.outcomes = Append(@, "fail")])
             ELSE IF outcome = "lost"
             THEN UploadLoop(webFiles, AfterFailedUpload(webFiles, i),
                             existingImageMetadata, filmTitle, postID, F,
                             [acc EXCEPT !.failed = @ + 1,
                                         !.outcomes = Append(@, "lost"),
                                         !.media = Append(@, media)])
             ELSE UploadLoop(webFiles, i + 1, existingImageMetadata, filmTitle, postID, F,
                             [acc EXCEPT !.media = Append(@, media),
                                         !.outcomes = Append(@, "ok"),
                                         !.uploadedMedia = Append(@, mediaInfo),
                                         !.imageMetadataMap =
                                             [fn \in DOMAIN @ \cup {fileName} |->
                                                 IF fn = fileName THEN mediaID ELSE @[fn]]])

MapValues(m) == {m[k] : k \in DOMAIN m}

\* all orders in which the values of a set can be listed
Orderings(S) ==
    {q \in [1..Cardinality(S) -> S] : \A i, j \in 1..Cardinality(S) : q[i] = q[j] => i = j}

\* the ids returned when the walk finds no web file: the empty list
ReturnedWithoutFiles(persistedMap) == {}

\* the ids returned after the upload loop: the values of the in-memory map
ReturnedIds(imageMetadataMap) == MapValues(imageMetadataMap)

\* the failures that can strike one media stage over nFiles web files
MediaFaultPoints(nFiles) ==
    {Fault("upload", ToString(i), v) : i \in 1..nFiles, v \in {"fail", "lost"}}
    \cup {Fault("read", ty, "fail") : ty \in {"wordpress", "wp_images"}}
    \cup {Fault("save", ty, "fail") : ty \in {"wordpress_media", "wp_images"}}
    \cup {Fault("walk", "filmDir", "fail")}

\* the whole of UploadMediaToWordPress; st is the metadata store, d the film
\* directory, media the backend's media; the result carries the new store
\* and backend media and (in ids) the values of the returned slice
MediaPass(filmTitle, F, d, st, media) ==
    LET filmID == SanitizeFilename(filmTitle)
        wpRec == st[<<filmID, "wordpress">>]
        wpRead == IF Has(F, "read", "wordpress", "fail") THEN "error"
                  ELSE IF wpRec.found THEN "ok" ELSE "notfound"
        webFiles == WebFiles(d)
        mapRec == st[<<filmID, "wp_images">>]
        mapRead == IF Has(F, "read", "wp_images", "fail") THEN "error"
                   ELSE IF mapRec.found THEN "ok" ELSE "notfound"
        existingImageMetadata == IF mapRead = "ok" THEN mapRec.data ELSE <<>>
        postID == IF wpRead = "ok" THEN wpRec.data.PostID ELSE 0
        loop == UploadLoop(webFiles, 1, existingImageMetadata, filmTitle, postID, F,
                           [media |-> media, uploadedMedia |-> <<>>,
                            imageMetadataMap |-> existingImageMetadata,
                            outcomes |-> <<>>, skipped |-> 0, failed |-> 0])
        st1 == IF Len(loop.uploadedMedia) > 0 /\ ~Has(F, "save", "wordpress_media", "fail")
               THEN [st EXCEPT ![<<filmID, "wordpress_media">>] = Rec(loop.uploadedMedia)]
               ELSE st
        st2 == IF ~Has(F, "save", "wp_images", "fail")
               THEN [st1 EXCEPT ![<<filmID, "wp_images">>] = Rec(loop.imageMetadataMap)]
               ELSE st1
        base == [op |-> "media", filmID |-> filmID, webFiles |-> webFiles,
                 mapBefore |-> mapRec, ledgerBefore |-> st[<<filmID, "wordpress_media">>],
                 mapRead |-> "none", mapSaved |-> FALSE, ledgerSaved |-> FALSE,
                 uploadedMedia |-> <<>>, skipped |-> 0, failed |-> 0,
                 outcomes |-> <<>>, imageMetadataMap |-> <<>>,
                 store |-> st, media |-> media, ids |-> {}, err |-> "nil"]
    IN  IF wpRead = "error"
        THEN [base EXCEPT !.err = "failed to load WordPress metadata", !.webFiles = <<>>]
        ELSE IF Has(F, "walk", "filmDir", "fail")
        THEN [base EXCEPT !.err = "failed to find _web.jpg files", !.webFiles = <<>>]
        ELSE IF Len(webFiles) = 0
        THEN [base EXCEPT !.ids = ReturnedWithoutFiles(mapRec.data)]
        ELSE [base EXCEPT !.mapRead = mapRead,
                          !.mapSaved = ~Has(F, "save", "wp_images", "fail"),
                          !.ledgerSaved = Len(loop.uploadedMedia) > 0
                                          /\ ~Has(F, "save", "wordpress_media", "fail"),
                          !.uploadedMedia = loop.uploadedMedia,
                          !.skipped = loop.skipped,
                          !.failed = loop.failed,
                          !.outcomes = loop.outcomes,
                          !.imageMetadataMap = loop.imageMetadataMap,
                          !.store = st2,
                          !.media = loop.media,
                          !.ids = ReturnedIds(loop.imageMetadataMap)]

UploadMediaToWordPress ==
    /\ pc = "media"
    /\ UNCHANGED <<arg, ret>>
    /\ \E filmTitle \in {FilmNameOf(obj)} :
       \E filmID \in {SanitizeFilename(filmTitle)} :
       \E F \in SubsetsUpTo(MediaFaultPoints(Len(WebFiles(disk[filmID]))), Budget) :
       \E r \in {MediaPass(filmTitle, F, disk[filmID], store, wpMedia)} :
                  /\ faults' = faults + Cardinality(F)
                  /\ store' = r.store
                  /\ wpMedia' = r.media
                  /\ up' = [r EXCEPT !.store = {}, !.media = wpMedia]
                  /\ \E returned \in Orderings(r.ids) : imageIds' = returned
                  /\ pc' = AfterStage(r.err, "upsert")
                  /\ result' = IF r.err = "nil" THEN result
                                ELSE "failed to upload media to WordPress"
    /\ Counted
    /\ UNCHANGED <<disk, wpPosts, obj, runs, drv, prevUp, ups, upsertLog>>

\* ------------------------------------------------------------------------
\* wordpress.CreateWordPressSlug
\* ------------------------------------------------------------------------

\* NFD, removal of the combining marks, NFC: the accented letters of the
\* model and their base letters
Accented == <<"Á","É","Í","Ó","Ú","Ñ","Ü","á","é","í","ó","ú","ñ","ü">>
BaseOf   == <<"A","E","I","O","U","N","U","a","e","i","o","u","n","u">>

FoldChar(c) ==
    IF \E i \in 1..Len(Accented) : Accented[i] = c
    THEN BaseOf[CHOOSE i \in 1..Len(Accented) : Accented[i] = c]
    ELSE c

IsSlugChar(c) == (\E i \in 1..26 : Lower[i] = c) \/ c \in Digits

\* regexp [^a-z0-9]+ replaced by "-": every run of other characters is one hyphen
RECURSIVE ReplaceRuns(_)
ReplaceRuns(s) ==
    IF s = <<>> THEN <<>>
    ELSE IF IsSlugChar(Head(s)) THEN <<Head(s)>> \o ReplaceRuns(Tail(s))
    ELSE IF Len(s) > 1 /\ ~IsSlugChar(s[2]) THEN ReplaceRuns(Tail(s))
    ELSE <<"-">> \o ReplaceRuns(Tail(s))

RECURSIVE TrimHyphens(_)
TrimHyphens(s) ==
    IF s # <<>> /\ Head(s) = "-" THEN TrimHyphens(Tail(s))
    ELSE IF s # <<>> /\ s[Len(s)] = "-" THEN TrimHyphens(SubSeq(s, 1, Len(s) - 1))
    ELSE s

MaxSlugLen == 50

CreateWordPressSlug(title) ==
    LET folded == [i \in 1..Len(title) |-> FoldChar(title[i])]
        slug == TrimHyphens(ReplaceRuns(ToLower(folded)))
    IN  IF Len(slug) > MaxSlugLen THEN SubSeq(slug, 1, MaxSlugLen) ELSE slug

\* ------------------------------------------------------------------------
\* Category lookup: services.ParseCategoryString, GetCategoryIDsByNames
\* ------------------------------------------------------------------------

Contains(s, sub) == \E i \in 1..(Len(s) + 1) : MatchAt(s, i, sub) \/ sub = <<>>

\* strings.Split(s, ",") followed by TrimSpace and the removal of empty parts
RECURSIVE ParseCategoryString(_)
ParseCategoryString(categoryString) ==
    IF categoryString = <<>> THEN <<>>
    ELSE LET i == FirstIndex(categoryString, ",")
             part == TrimSpace(IF i = 0 THEN categoryString
                               ELSE SubSeq(categoryString, 1, i - 1))
             rest == IF i = 0 THEN <<>>
                     ELSE ParseCategoryString(SubSeq(categoryString, i + 1, Len(categoryString)))
         IN  IF part = <<>> THEN rest ELSE <<part>> \o rest

\* strings.ReplaceAll(s, "", "-"): a hyphen before every character and at the end
RECURSIVE HyphenBetween(_)
HyphenBetween(s) ==
    IF s = <<>> THEN <<"-">> ELSE <<"-", Head(s)>> \o HyphenBetween(Tail(s))

\* the taxonomy the backend returns for a search by year
Taxonomy ==
    << [ID |-> 7, Name |-> <<"D","r","a","m","a"," ","2","0","2","5">>, Parent |-> 0],
       [ID |-> 8, Name |-> <<"D","o","c","s"," ","2","0","2","5">>, Parent |-> 3] >>

\* position of the first category matching the needle, 0 when there is none
FirstMatch(categories, needle) ==
    LET hit(i) == Contains(ToLower(categories[i].Name), needle)
    IN  IF \E i \in 1..Len(categories) : hit(i)
        THEN CHOOSE i \in 1..Len(categories) : hit(i) /\ \A j \in 1..(i - 1) : ~hit(j)
        ELSE 0

RECURSIVE GetCategoryIDsByNames(_, _, _)
GetCategoryIDsByNames(categoryNames, i, searchFails) ==
    IF i > Len(categoryNames) THEN <<>>
    ELSE LET categoryName == categoryNames[i]
             rest == GetCategoryIDsByNames(categoryNames, i + 1, searchFails)
             first == FirstMatch(Taxonomy, HyphenBetween(ToLower(categoryName)))
             second == FirstMatch(Taxonomy, ToLower(TrimSpace(categoryName)))
             found == IF first # 0 THEN first ELSE second
         IN  IF TrimSpace(categoryName) = <<>> \/ searchFails \/ found = 0 THEN rest
             ELSE <<Taxonomy[found].ID, Taxonomy[found].Parent>> \o rest

\* services.cleanCategories: the zero ids are dropped before the request
cleanCategories(categories) == SelectSeq(categories, LAMBDA c : c # 0)

\* ------------------------------------------------------------------------
\* Featured medium: wordpress.selectFeaturedMediaID
\* ------------------------------------------------------------------------

Keywords == <<<<"p","o","s","t","e","r">>, <<"p","o","r","t","a","d","a">>, <<"c","o","v","e","r">>>>

\* the file name of the source url without its extension, lower-cased
SourceFileName(fileName) ==
    LET dot == LastIndex(fileName, ".")
    IN  ToLower(IF dot = 0 THEN fileName ELSE SubSeq(fileName, 1, dot - 1))

MediaMatchesKeyword(m) ==
    \E k \in 1..Len(Keywords) :
        \/ Contains(ToLower(m.title), Keywords[k])
        \/ Contains(SourceFileName(m.fileName), Keywords[k])
        \/ Contains(ToLower(m.alt_text), Keywords[k])

\* mutant: the first id is taken whatever the media are
selectFeaturedMediaID_First(ids, media, getFails) ==
    IF Len(ids) = 0 THEN 0 ELSE ids[1]

\* getFails: the media ids whose GetMedia call fails
selectFeaturedMediaID(ids, media, getFails) ==
    IF Len(ids) = 0 THEN 0
    ELSE LET hit(i) == /\ ids[i] \notin getFails
                       /\ ids[i] \in 1..Len(media)
                       /\ MediaMatchesKeyword(media[ids[i]])
         IN  IF \E i \in 1..Len(ids) : hit(i)
             THEN ids[CHOOSE i \in 1..Len(ids) : hit(i) /\ \A j \in 1..(i - 1) : ~hit(j)]
             ELSE ids[1]

\* ------------------------------------------------------------------------
\* Ledger backfill: wordpress.updateMediaMetadataWithPostID
\* ------------------------------------------------------------------------

\* json.Unmarshal into map[string]any: every JSON number arrives as a float64
AsAny(n) == [kind |-> "float64", value |-> n]

\* postIDValue.(int) succeeded and the value is 0
IsIntZero(v) == v.kind = "int" /\ v.value = 0

\* result: the ledger record to persist and the error of the call
updateMediaMetadataWithPostID(ledgerRec, postID, F) ==
    IF Has(F, "read", "wordpress_media", "fail")
    THEN [rec |-> ledgerRec, err |-> "failed to get metadata"]
    ELSE IF ~ledgerRec.found
    THEN [rec |-> ledgerRec, err |-> "nil"]
    ELSE LET mediaMetadata == ledgerRec.data
             decoded == [i \in 1..Len(mediaMetadata) |-> AsAny(mediaMetadata[i].post_id)]
             updated == \E i \in 1..Len(mediaMetadata) : IsIntZero(decoded[i])
             filled == [i \in 1..Len(mediaMetadata) |->
                           IF IsIntZero(decoded[i])
                           THEN [mediaMetadata[i] EXCEPT !.post_id = postID]
                           ELSE mediaMetadata[i]]
         IN  IF ~updated THEN [rec |-> ledgerRec, err |-> "nil"]
             ELSE IF Has(F, "save", "wordpress_media", "fail")
             THEN [rec |-> ledgerRec, err |-> "failed to save metadata"]
             ELSE [rec |-> Rec(filled), err |-> "nil"]

\* ------------------------------------------------------------------------
\* Entity Upsert State Machine: wordpress.CreateOrUpdateWordPressProject
\* ------------------------------------------------------------------------

UntitledFilm == <<"U","n","t","i","t","l","e","d"," ","F","i","l","m">>
UntitledSlug == <<"u","n","t","i","t","l","e","d","-","f","i","l","m">>
TemplatePath == <<"d","i","v","i","_","t","e","m","p","l","a","t","e",".","j","s","o","n">>

FilmTitleOf(filmData) ==
    IF filmData.TITULO_ORIGINAL # Absent THEN filmData.TITULO_ORIGINAL ELSE UntitledFilm

SectionOf(filmData) ==
    IF filmData.SECCION # Absent THEN filmData.SECCION ELSE <<>>

RECURSIVE JoinWithSpace(_)
JoinWithSpace(parts) ==
    IF parts = <<>> THEN <<>>
    ELSE IF Len(parts) = 1 THEN parts[1]
    ELSE parts[1] \o <<" ">> \o JoinWithSpace(Tail(parts))

SlugText(filmTitle, section, year) ==
    LET slugParts == (IF filmTitle # UntitledFilm THEN <<filmTitle>> ELSE <<>>)
                     \o (IF section # <<>> THEN <<section>> ELSE <<>>)
                     \o (IF year # <<>> THEN <<year>> ELSE <<>>)
        slugText == JoinWithSpace(slugParts)
    IN  IF slugText = <<>> THEN UntitledSlug ELSE slugText

SlugSuffix == <<"-","2">>

UpsertFaultPoints(ids) ==
    {Fault("read", ty, "fail") : ty \in {"wordpress", "wordpress_media"}}
    \cup {Fault("save", ty, "fail") : ty \in {"wordpress", "wordpress_media"}}
    \cup {Fault("post", "request", v) : v \in {"fail", "lost"}}
    \cup {Fault("post", "response", "altered")}
    \cup {Fault("search", "categories", "fail"), Fault("write", "template", "fail")}
    \cup {Fault("getmedia", ToString(ids[i]), "fail") : i \in 1..Len(ids)}

\* mutant: the persisted record is ignored, every run creates
NoRecord_AlwaysCreate(wpRead) == TRUE

\* state NO_RECORD: the load of the persisted record reported not-found
NoRecord(wpRead) == wpRead = "notfound"

\* mutant: the post id of the answer is persisted too
AfterUpdate_TakesAnsweredID(metadata, updatedPost) ==
    [metadata EXCEPT !.PostID = updatedPost.ID,
                     !.Title = updatedPost.Title,
                     !.Slug = updatedPost.Slug,
                     !.Status = updatedPost.Status]

\* the record re-persisted after an update: the answer's title, slug and
\* status, the persisted post id
AfterUpdate(metadata, updatedPost) ==
    [metadata EXCEPT !.Title = updatedPost.Title,
                     !.Slug = updatedPost.Slug,
                     !.Status = updatedPost.Status]

\* mutant: the record keeps the post id of the request, which has none
AfterCreate_RequestID(createdPost, title, status) ==
    [PostID |-> 0, Title |-> title, Slug |-> createdPost.Slug, Status |-> status]

\* the record persisted after a create: the id and the slug of the answer
AfterCreate(createdPost, title, status) ==
    [PostID |-> createdPost.ID, Title |-> title, Slug |-> createdPost.Slug,
     Status |-> status]

\* mutant: a failed create or update call is not noticed
CallError_Ignored(isCreate, failed) == "nil"

\* the error CreateOrUpdateWordPressProject returns after the backend call
CallError(isCreate, failed) ==
    IF ~failed THEN "nil"
    ELSE IF isCreate THEN "failed to create WordPress post"
    ELSE "failed to update WordPress post"

\* the whole of CreateOrUpdateWordPressProject; st the metadata store, posts
\* and media the backend's posts and media, d the film directory.  The
\* backend echoes the request in its answer unless F makes it answer with a
\* slug and (for an update) an id of its own choosing
UpsertPass(filmData, year, ids, F, st, posts, media, d) ==
    LET filmTitle == FilmTitleOf(filmData)
        filmID == SanitizeFilename(filmTitle)
        section == SectionOf(filmData)
        key == <<filmID, "wordpress">>
        wpRec == st[key]
        wpRead == IF Has(F, "read", "wordpress", "fail") THEN "error"
                  ELSE IF wpRec.found THEN "ok" ELSE "notfound"
        slug == CreateWordPressSlug(SlugText(filmTitle, section, year))
        categoryIDs == IF section # <<>>
                       THEN GetCategoryIDsByNames(ParseCategoryString(section), 1,
                                                  Has(F, "search", "categories", "fail"))
                       ELSE <<>>
        getFails == {ids[i] : i \in {j \in 1..Len(ids) :
                                        Has(F, "getmedia", ToString(ids[j]), "fail")}}
        featuredID == selectFeaturedMediaID(ids, media, getFails)
        post == [Title |-> filmTitle, Status |-> "draft", Slug |-> slug,
                 Categories |-> cleanCategories(categoryIDs),
                 FeaturedMedia |-> featuredID]
        requestFails == Has(F, "post", "request", "fail")
        responseLost == Has(F, "post", "request", "lost")
        altered == Has(F, "post", "response", "altered")
        answeredSlug == IF altered THEN post.Slug \o SlugSuffix ELSE post.Slug
        \* create
        createdID == Len(posts) + 1
        created == [ID |-> createdID, Slug |-> answeredSlug]
        \* update
        postID == wpRec.data.PostID
        answeredID == IF altered THEN postID + 1 ELSE postID
        exists == postID \in 1..Len(posts)
        updated == [ID |-> postID, Slug |-> answeredSlug]
        isCreate == NoRecord(wpRead)
        callFails == requestFails \/ (~isCreate /\ ~exists)
        callOutcome == IF callFails THEN "fail" ELSE IF responseLost THEN "lost" ELSE "ok"
        callErr == CallError(isCreate, callFails \/ responseLost)
        posts1 == IF callFails THEN posts
                  ELSE IF isCreate THEN Append(posts, created)
                  ELSE [posts EXCEPT ![postID] = updated]
        metadata == IF isCreate
                    THEN AfterCreate(created, filmTitle, post.Status)
                    ELSE AfterUpdate(wpRec.data, [ID |-> answeredID, Title |-> filmTitle,
                                                  Slug |-> answeredSlug,
                                                  Status |-> post.Status])
        saveFails == Has(F, "save", "wordpress", "fail")
        st1 == IF saveFails THEN st ELSE [st EXCEPT ![key] = Rec(metadata)]
        fill == updateMediaMetadataWithPostID(st1[<<filmID, "wordpress_media">>],
                                              metadata.PostID, F)
        st2 == [st1 EXCEPT ![<<filmID, "wordpress_media">>] = fill.rec]
        writeFails == Has(F, "write", "template", "fail")
        base == [op |-> "upsert", filmID |-> filmID, recBefore |-> wpRec,
                 call |-> "none", callID |-> 0, callOutcome |-> "none",
                 recordSave |-> "none", post |-> post, answeredID |-> 0,
                 imageIds |-> ids, getFails |-> getFails,
                 store |-> st, posts |-> posts, disk |-> d,
                 templatePostID |-> 0, fillErr |-> "none", err |-> "nil"]
        called == [base EXCEPT !.call = IF isCreate THEN "create" ELSE "update",
                               !.callID = IF isCreate THEN 0 ELSE postID,
                               !.callOutcome = callOutcome,
                               !.posts = posts1]
    IN  IF wpRead = "error"
        THEN [base EXCEPT !.err = "failed to get metadata"]
        ELSE IF callErr # "nil"
        THEN [called EXCEPT !.err = callErr]
        ELSE IF saveFails
        THEN [called EXCEPT !.err = "failed to save WordPress metadata",
                            !.recordSave = "fail",
                            !.answeredID = IF isCreate THEN createdID ELSE answeredID]
        ELSE IF writeFails
        THEN [called EXCEPT !.err = "failed to save Divi template to file",
                            !.recordSave = "ok",
                            !.answeredID = IF isCreate THEN createdID ELSE answeredID,
                            !.store = st2, !.fillErr = fill.err]
        ELSE [called EXCEPT !.answeredID = IF isCreate THEN createdID ELSE answeredID,
                            !.recordSave = "ok",
                            !.store = st2, !.fillErr = fill.err,
                            !.disk = d \cup {TemplatePath},
                            !.templatePostID = metadata.PostID]

CreateOrUpdateWordPressProject ==
    /\ pc = "upsert"
    /\ UNCHANGED <<arg, ret>>
    /\ \E filmID \in {SanitizeFilename(FilmNameOf(obj))} :
       \E F \in SubsetsUpTo(UpsertFaultPoints(imageIds), Budget) :
       \E r \in {UpsertPass(obj, Year, imageIds, F, store, wpPosts, wpMedia,
                            disk[filmID])} :
          /\ faults' = faults + Cardinality(F)
          /\ store' = r.store
          /\ wpPosts' = r.posts
          /\ disk' = [disk EXCEPT ![filmID] = r.disk]
          /\ ups' = [r EXCEPT !.store = {}, !.posts = {}, !.disk = {}]
          /\ upsertLog' = Append(upsertLog, [call |-> r.call, callID |-> r.callID,
                                             answeredID |-> r.answeredID, err |-> r.err])
          /\ result' = IF r.err = "nil" THEN "nil"
                       ELSE "failed to create/update WordPress project"
    /\ pc' = "idle"
    /\ imageIds' = <<>>
    /\ Counted
    /\ UNCHANGED <<wpMedia, obj, runs, drv, up, prevUp>>

Next ==
    \/ BeginFilm
    \/ LocalDirLost
    \/ ProcessGoogleDriveFiles
    \/ NoEnlaces
    \/ UploadMediaToWordPress
    \/ CreateOrUpdateWordPressProject

Spec == Init /\ [][Next]_vars

\* ------------------------------------------------------------------------
\* CreateWordPressSlug applied to titles of every length around the limit
\* ------------------------------------------------------------------------

\* longest run of one letter put before and after the middle of a title
MaxPad == 52

RECURSIVE Repeat(_, _)
Repeat(c, n) == IF n <= 0 THEN <<>> ELSE <<c>> \o Repeat(c, n - 1)

\* what stands between the two runs of letters
SlugMiddles ==
    { <<>>, <<" ">>, <<"-">>, <<":", " ">>, <<"É">>, <<" ", "y", " ">>, <<"_", "7", "!">> }

SlugTitles ==
    { Repeat("a", n) \o mid \o Repeat("B", m) :
          n \in {0, 1, 2, MaxPad - 4, MaxPad - 3, MaxPad - 2, MaxPad - 1, MaxPad},
          mid \in SlugMiddles, m \in 0..3 }

InitSlug ==
    /\ FreshStart
    /\ arg \in {[fn |-> "CreateWordPressSlug", title |-> t] : t \in SlugTitles}
    /\ ret = NoCall

SlugCall ==
    /\ ~ret.done
    /\ ret' = [done |-> TRUE, value |-> CreateWordPressSlug(arg.title)]
    /\ UNCHANGED <<pipelineVars, arg>>

NextSlug == SlugCall

SpecSlug == InitSlug /\ [][NextSlug]_vars

\* ------------------------------------------------------------------------
\* Director blocks: services.parseDirectors and the director part of
\* GenerateDiviTemplateDataWithWordPress
\* ------------------------------------------------------------------------

ToUpperChar(c) ==
    IF \E i \in 1..26 : Lower[i] = c
    THEN Upper[CHOOSE i \in 1..26 : Lower[i] = c]
    ELSE c

ToUpper(s) == [i \in 1..Len(s) |-> ToUpperChar(s[i])]

\* the first position from i on that holds no white space (Len(s) + 1 when
\* there is none): what \s* and \s+ consume
RECURSIVE SkipSpaces(_, _)
SkipSpaces(s, i) ==
    IF i <= Len(s) /\ IsSpace(s[i]) THEN SkipSpaces(s, i + 1) ELSE i

\* mutant: y and + separate without white space around them
MatchSeparator_NoSpaceNeeded(s, i) ==
    LET j == SkipSpaces(s, i)
    IN  IF j > Len(s) THEN 0
        ELSE IF s[j] \in {",", "&", "+", "y"} THEN SkipSpaces(s, j + 1)
        ELSE 0

\* the regexp \s*,\s*|\s+\+\s+|\s+y\s+|\s*&\s* matched at position i: the
\* position after the match, 0 when it does not match there.  After the white
\* space from i on, a comma or an ampersand matches with the white space
\* behind it; a plus or a y matches when white space stands before and
\* behind it
MatchSeparator(s, i) ==
    LET j == SkipSpaces(s, i)
    IN  IF j > Len(s) THEN 0
        ELSE IF s[j] \in {",", "&"} THEN SkipSpaces(s, j + 1)
        ELSE IF s[j] \in {"+", "y"} /\ j > i /\ j + 1 <= Len(s) /\ IsSpace(s[j + 1])
        THEN SkipSpaces(s, j + 1)
        ELSE 0

\* re.Split(s, -1): the parts between the leftmost matches; the part in
\* progress starts at beg, the search for the next match is at i
RECURSIVE RegexpSplit(_, _, _)
RegexpSplit(s, beg, i) ==
    IF i > Len(s) THEN <<SubSeq(s, beg, Len(s))>>
    ELSE LET end == MatchSeparator(s, i)
         IN  IF end # 0
             THEN <<SubSeq(s, beg, i - 1)>> \o RegexpSplit(s, end, end)
             ELSE RegexpSplit(s, beg, i + 1)

\* the parts of the split, trimmed, the empty ones left out
parseDirectors(directorString) ==
    LET directors == RegexpSplit(directorString, 1, 1)
    IN  SelectSeq([k \in 1..Len(directors) |-> TrimSpace(directors[k])],
                  LAMBDA name : Len(name) > 0)

\* the names of the director blocks of the template data
DirectorNames(MultiDir, Direccion) ==
    IF Direccion = <<>> THEN <<>>
    ELSE IF ToUpper(MultiDir) = <<"S","I">> THEN parseDirectors(Direccion)
    ELSE <<Direccion>>

\* DirectorComponent.Render writes one row per director
DirectorBlocks(directors) == [k \in 1..Len(directors) |-> [name |-> directors[k]]]

\* the sheet cells of the model: values of "Multi Dir" ...
MultiDirCells ==
    { <<"S","I">>, <<"s","i">>, <<"S","i">>, <<"s","I">>, <<"N","O">>, <<>>,
      <<" ","S","I">>, <<"S","Í">> }

\* ... names of directors, with a y inside and at the end of a word ...
AnaPerez == <<"A","n","a"," ","P","é","r","e","z">>
LuisGomez == <<"L","u","i","s"," ","G","ó","m","e","z">>
MayraRey == <<"M","a","y","r","a"," ","R","e","y">>
Yoyes == <<"Y","o","y","e","s">>

DirectorNamesOfModel == {AnaPerez, LuisGomez, MayraRey, Yoyes}

\* ... what the sheet puts between two names: the separators ...
Separators ==
    { <<",">>, <<","," ">>, <<" ",","," ">>, <<" ","y"," ">>, <<" "," ","y","\t">>,
      <<" ","+"," ">>, <<"&">>, <<" ","&"," ">> }

\* ... and what is no separator
NoSeparators ==
    { <<" ">>, <<" ","Y"," ">>, <<"+">>, <<" ","+">>, <<"y"," ">>, <<" ","/"," ">> }

\* ... and the values of the DIRECCIÓN cell: empty, blank, one name, two and
\* three names, a name with nothing before or behind a separator
DireccionCells ==
    { <<>>, <<" "," ">> }
    \cup DirectorNamesOfModel
    \cup { a \o sep \o b : a \in {AnaPerez, MayraRey}, b \in {LuisGomez, Yoyes},
                           sep \in Separators \cup NoSeparators }
    \cup { a \o s1 \o b \o s2 \o c : a \in {AnaPerez}, b \in {MayraRey}, c \in {LuisGomez},
                                     s1 \in Separators, s2 \in Separators }
    \cup { a \o sep : a \in {AnaPerez}, sep \in Separators }
    \cup { sep \o a : a \in {LuisGomez}, sep \in Separators }

InitDirectors ==
    /\ FreshStart
    /\ arg \in {[fn |-> "GenerateDiviTemplateDataWithWordPress",
                 MultiDir |-> f, Direccion |-> d] : f \in MultiDirCells,
                                                    d \in DireccionCells}
    /\ ret = NoCall

DirectorsCall ==
    /\ ~ret.done
    /\ ret' = [done |-> TRUE,
               value |-> DirectorBlocks(DirectorNames(arg.MultiDir, arg.Direccion))]
    /\ UNCHANGED <<pipelineVars, arg>>

NextDirectors == DirectorsCall

SpecDirectors == InitDirectors /\ [][NextDirectors]_vars

\* ------------------------------------------------------------------------
\* Template Composer: services.DiviTemplateComposer and its components.  A
\* document is a sequence of pieces: Lit for a piece of the fixed markup of a
\* component, Text for a value Sprintf puts into it
\* ------------------------------------------------------------------------

Lit(markup) == [lit |-> markup]
Text(value) == [text |-> value]

\* html.EscapeString
EscapeChar(c) ==
    IF c = "&" THEN <<"&","a","m","p",";">>
    ELSE IF c = "<" THEN <<"&","l","t",";">>
    ELSE IF c = ">" THEN <<"&","g","t",";">>
    ELSE IF c = "\"" THEN <<"&","#","3","4",";">>
    ELSE IF c = "'" THEN <<"&","#","3","9",";">>
    ELSE <<c>>

RECURSIVE escapeHtml(_)
escapeHtml(text) ==
    IF text = <<>> THEN <<>> ELSE EscapeChar(Head(text)) \o escapeHtml(Tail(text))

\* strings.Join
RECURSIVE Join(_, _)
Join(parts, sep) ==
    IF parts = <<>> THEN <<>>
    ELSE IF Len(parts) = 1 THEN parts[1]
    ELSE parts[1] \o sep \o Join(Tail(parts), sep)

\* strings.Split(s, "."), the part in progress being cur
RECURSIVE SplitDots(_, _)
SplitDots(s, cur) ==
    IF s = <<>> THEN <<cur>>
    ELSE IF Head(s) = "." THEN <<cur>> \o SplitDots(Tail(s), <<>>)
    ELSE SplitDots(Tail(s), Append(cur, Head(s)))

\* the credit fields in the order Render writes them
CreditFields == <<"Production", "Script", "Photography", "ArtDesign",
                  "SoundMusic", "Editing", "Cast">>

RECURSIVE CreditLines(_, _)
CreditLines(credits, i) ==
    IF i > Len(CreditFields) THEN <<>>
    ELSE (IF credits[CreditFields[i]] # <<>>
          THEN <<Lit(CreditFields[i]), Text(escapeHtml(credits[CreditFields[i]]))>>
          ELSE <<>>) \o CreditLines(credits, i + 1)

CreditsComponentRender(c) ==
    LET directorNames == [k \in 1..Len(c.Directors) |-> c.Directors[k].Name]
        parts == SplitDots(c.Credits.OtherCredits, <<>>)
        trimmed == SelectSeq([k \in 1..Len(parts) |-> TrimSpace(parts[k])],
                             LAMBDA part : part # <<>>)
        escapedParts == [k \in 1..Len(trimmed) |-> escapeHtml(trimmed[k])]
    IN  (IF Len(c.Directors) > 0
         THEN <<Lit("Direccion"), Text(escapeHtml(Join(directorNames, <<","," ">>)))>>
         ELSE <<>>)
        \o (IF c.Credits.OtherCredits # <<>>
            THEN (IF Len(escapedParts) > 0
                  THEN <<Lit("p"), Text(Join(escapedParts, <<"<","b","r",">">>))>>
                  ELSE <<>>)
            ELSE CreditLines(c.Credits, 1))

RECURSIVE DirectorComponentRender(_, _)
DirectorComponentRender(d, k) ==
    IF k > Len(d.Directors) THEN <<>>
    ELSE <<Lit("et_pb_row director"), Text(d.Directors[k].ImageURL),
           Text(escapeHtml(d.Directors[k].Name)), Text(escapeHtml(d.Directors[k].Bio)),
           Lit("/et_pb_row director")>>
         \o DirectorComponentRender(d, k + 1)

ContentNotesComponentRender(c) ==
    IF c.ContentNotes = <<>> THEN <<>>
    ELSE <<Lit("et_pb_text NdC"), Text(escapeHtml(c.ContentNotes)), Lit("/et_pb_text NdC")>>

GalleryComponentRender(g) ==
    <<Lit("et_pb_gallery"), Text(g.MediaIds), Lit("/et_pb_gallery")>>

HeaderComponentRender(h) ==
    <<Lit("et_pb_fullwidth_header"), Text(h.Title), Text(h.Subhead),
      Text(h.BackgroundImage), Lit("/et_pb_fullwidth_header")>>

MenuComponentRender(m) == <<Lit("et_pb_fullwidth_menu")>>

MainContentComponentRender(m) ==
    LET escapedSinopsis == escapeHtml(m.Synopsis)
        creditsSection == CreditsComponentRender(m.CreditsComponent)
        contentNotesSection == ContentNotesComponentRender(m.ContentNotesComponent)
        directorSection == DirectorComponentRender(m.DirectorComponent, 1)
        galleryComponent == GalleryComponentRender(m.GalleryComponent)
    IN  <<Lit("et_pb_section main"), Lit("FICHA TECNICA")>> \o creditsSection
        \o <<Lit("SINOPSIS"), Text(escapedSinopsis)>> \o contentNotesSection
        \o directorSection \o galleryComponent \o <<Lit("/et_pb_section main")>>

FooterComponentRender(f) ==
    <<Lit("et_pb_section footer"), Text(f.ButtonText), Lit("/et_pb_section footer")>>

\* TemplateComponent.Render
Render(component) ==
    IF component.kind = "HeaderComponent" THEN HeaderComponentRender(component)
    ELSE IF component.kind = "MenuComponent" THEN MenuComponentRender(component)
    ELSE IF component.kind = "MainContentComponent"
    THEN MainContentComponentRender(component)
    ELSE FooterComponentRender(component)

NewDiviTemplateComposer == <<>>

AddComponent(components, component) == Append(components, component)

\* mutant: the components are written last first
RECURSIVE Compose_LastFirst(_)
Compose_LastFirst(components) ==
    IF components = <<>> THEN <<>>
    ELSE Compose_LastFirst(Tail(components)) \o Render(Head(components))

RECURSIVE Compose(_)
Compose(components) ==
    IF components = <<>> THEN <<>>
    ELSE Render(Head(components)) \o Compose(Tail(components))

SubheadSep == <<" ","·"," ">>
Convocatoria == <<"c","o","n","v","o","c","a","t","o","r","i","a">>

CreateStandardFilmTemplate(templateData, year) ==
    LET subhead == templateData.Country \o SubheadSep \o templateData.Year
                   \o SubheadSep \o templateData.Duration
        buttonText == IF year # <<>> THEN Convocatoria \o <<" ">> \o year
                      ELSE Convocatoria
        creditsComponent == [Directors |-> templateData.Directors,
                             Credits |-> templateData.Credits]
        contentNotesComponent == [ContentNotes |-> templateData.ContentNotes]
        directorComponent == [Directors |-> templateData.Directors]
        galleryComponent == [MediaIds |-> templateData.GalleryMediaIds]
    IN  AddComponent(AddComponent(AddComponent(AddComponent(NewDiviTemplateComposer,
            [kind |-> "HeaderComponent", Title |-> escapeHtml(templateData.Title),
             Subhead |-> subhead, BackgroundImage |-> templateData.BackgroundImage]),
            [kind |-> "MenuComponent"]),
            [kind |-> "MainContentComponent",
             CreditsComponent |-> creditsComponent,
             ContentNotesComponent |-> contentNotesComponent,
             Synopsis |-> templateData.Synopsis,
             DirectorComponent |-> directorComponent,
             GalleryComponent |-> galleryComponent]),
            [kind |-> "FooterComponent", ButtonText |-> buttonText])

\* the template data of the model: directors, credits, notes and synopsis
\* present or not, values that need escaping
DirectorLists ==
    { <<>>,
      <<[Name |-> AnaPerez, Bio |-> <<"V","i","v","e"," ","&"," ","f","i","l","m","a">>, ImageURL |-> <<>>]>>,
      <<[Name |-> AnaPerez, Bio |-> <<"V","i","v","e"," ","&"," ","f","i","l","m","a">>, ImageURL |-> <<>>],
        [Name |-> LuisGomez, Bio |-> <<"V","i","v","e"," ","&"," ","f","i","l","m","a">>, ImageURL |-> <<"h","t","t","p",":","/","/","w","p","/","l","u","i","s",".","j","p","g">>]>> }

NoCredits == [f \in {CreditFields[i] : i \in 1..Len(CreditFields)} |-> <<>>]
            @@ [OtherCredits |-> <<>>]

CreditsOfModel ==
    { NoCredits,
      [NoCredits EXCEPT !.Production = <<"P","r","o","d"," ","&"," ","C","o">>],
      [NoCredits EXCEPT !.Script = <<"A","n","a">>, !.Cast = <<"E","v","a">>],
      [NoCredits EXCEPT !.Production = <<"P","r","o","d"," ","&"," ","C","o">>, !.OtherCredits = <<"C","o","l","o","r",":"," ","E","v","a","."," ","S","o","n","i","d","o",":"," ","<","L","e","o",">",".">>],
      [NoCredits EXCEPT !.OtherCredits = <<" ", ".", " ">>] }

TemplatesOfModel ==
    { [Title |-> t, Country |-> <<"C","h","i","l","e">>, Year |-> Year, Duration |-> <<"1","2","'">>,
       BackgroundImage |-> <<>>, Directors |-> d, Synopsis |-> sy, ContentNotes |-> n,
       Credits |-> c, GalleryMediaIds |-> g] :
         t \in {TituloOriginal, <<"A"," ","<","b",">"," ","&"," ","C">>}, d \in DirectorLists,
         sy \in {<<>>, <<"U","n"," ","f","i","l","m",".">>}, n \in {<<>>, <<"L","u","c","e","s">>}, c \in CreditsOfModel,
         g \in {<<>>, <<"3",",","4">>} }

InitTemplate ==
    /\ FreshStart
    /\ arg \in {[fn |-> "GenerateDiviShortcodeTemplate", templateData |-> t, year |-> y] :
                   t \in TemplatesOfModel, y \in {<<>>, Year}}
    /\ ret = NoCall

\* GenerateDiviShortcodeTemplate: the standard template, composed
TemplateCall ==
    /\ ~ret.done
    /\ \E composer \in {CreateStandardFilmTemplate(arg.templateData, arg.year)} :
          ret' = [done |-> TRUE, components |-> composer, value |-> Compose(composer)]
    /\ UNCHANGED <<pipelineVars, arg>>

NextTemplate == TemplateCall

SpecTemplate == InitTemplate /\ [][NextTemplate]_vars

\* ------------------------------------------------------------------------
\* ListAllFilesRecursively over folder trees of any folder names
\* ------------------------------------------------------------------------

\* a folder name with a slash in it, which the remote store accepts
NameSlash == <<"A","/","B">>

FolderNamesOfModel == {NameDir, NameDirUpper, NameDirSpace, NameRandom, NameSlash}

\* a file in the root, a file in a folder, a file in a folder of that folder
ScanTree(outer, inner) ==
    [ root |-> << Item("f1", outer, FolderMime), Item("r", FileR, MimePng) >>,
      f1   |-> << Item("a", FileA, MimePng), Item("f2", inner, FolderMime) >>,
      f2   |-> << Item("c", FileC, MimePng) >> ]

InitScan ==
    /\ FreshStart
    /\ arg \in {[fn |-> "ListAllFilesRecursively", tree |-> ScanTree(outer, inner),
                 failList |-> failList] :
                   outer \in FolderNamesOfModel, inner \in FolderNamesOfModel,
                   failList \in SUBSET {"f1", "f2"}}
    /\ ret = NoCall

ScanCall ==
    /\ ~ret.done
    /\ \E r \in {ListAllFilesRecursively(arg.tree, arg.failList, RootFolder)} :
          ret' = [done |-> TRUE, err |-> r.err, files |-> r.files]
    /\ UNCHANGED <<pipelineVars, arg>>

NextScan == ScanCall

SpecScan == InitScan /\ [][NextScan]_vars

\* ------------------------------------------------------------------------
\* The entity id of each stage of ProcessSingleFilm, for rows of any columns
\* ------------------------------------------------------------------------

TituloPadded == <<" ","L","e"," ","F","i","l","m",".">>
TituloColon  == <<"L","e",":","F","i","l","m">>
NameOfRow    == <<"F","i","l","m"," ","7">>

\* the TÍTULO ORIGINAL and Name cells of a row; Absent for a sheet without
\* the column
TitulosOfModel == {Absent, <<>>, TituloOriginal, TituloPadded, TituloColon}
NamesOfModel   == {Absent, <<>>, NameOfRow, TituloOriginal}

RowsOfModel ==
    {[TITULO_ORIGINAL |-> t, Name |-> n, SECCION |-> Seccion, ENLACES |-> e] :
        t \in TitulosOfModel, n \in NamesOfModel, e \in EnlacesValues}

InitKeys ==
    /\ FreshStart
    /\ arg \in {[fn |-> "ProcessSingleFilm", obj |-> o] : o \in RowsOfModel}
    /\ ret = NoCall

\* the film id each stage derives: drive and media from the film name the
\* caller hands over, upsert from the row itself
KeysCall ==
    /\ ~ret.done
    /\ \E filmName \in {FilmNameOf(arg.obj)} :
          ret' = [done |-> TRUE,
                  drive  |-> SanitizeFilename(filmName),
                  media  |-> SanitizeFilename(filmName),
                  upsert |-> SanitizeFilename(FilmTitleOf(arg.obj))]
    /\ UNCHANGED <<pipelineVars, arg>>

NextKeys == KeysCall

SpecKeys == InitKeys /\ [][NextKeys]_vars

\* ------------------------------------------------------------------------
\* app.processFilteredObjects over a sheet of several rows, nothing persisted
\* before
\* ------------------------------------------------------------------------

TituloOtro == <<"O","t","r","o">>

\* titles of the sheet: two of them sanitize to the same token
SheetTitles == {TituloOriginal, TituloPadded, TituloColon, TituloOtro}

\* rows without links: the drive stage has nothing to fetch
SheetRows ==
    {[TITULO_ORIGINAL |-> t, Name |-> Absent, SECCION |-> s, ENLACES |-> <<>>] :
        t \in SheetTitles, s \in {Seccion, Absent}}

RowsPerSheet == 2

SheetIDs == {SanitizeFilename(t) : t \in SheetTitles}

InitRows ==
    /\ FreshStart
    /\ arg \in {[fn |-> "processFilteredObjects", filteredObjects |-> rows] :
                   rows \in [1..RowsPerSheet -> SheetRows]}
    /\ ret = [done |-> FALSE, processedCount |-> 0,
              store |-> [key \in SheetIDs \X RecordTypes |-> NoRec],
              dirs |-> [id \in SheetIDs |-> {}],
              posts |-> <<>>, log |-> <<>>]

\* one turn of the loop over the rows: ProcessSingleFilm for the next row,
\* every call of it succeeding
ProcessRow ==
    /\ ~ret.done
    /\ \E row \in {arg.filteredObjects[ret.processedCount + 1]} :
       \E filmName \in {FilmNameOf(row)} :
       \E filmDir \in {SanitizeFilename(filmName)} :
       \E m \in {MediaPass(filmName, {}, ret.dirs[filmDir], ret.store, <<>>)} :
       \E r \in {UpsertPass(row, Year, <<>>, {}, m.store, ret.posts, <<>>,
                            ret.dirs[filmDir])} :
          ret' = [done |-> ret.processedCount + 1 = Len(arg.filteredObjects),
                  processedCount |-> ret.processedCount + 1,
                  store |-> r.store,
                  dirs |-> [ret.dirs EXCEPT ![filmDir] = r.disk],
                  posts |-> r.posts,
                  log |-> Append(ret.log, [filmID |-> r.filmID, call |-> r.call,
                                           postID |-> r.answeredID, err |-> r.err])]
    /\ UNCHANGED <<pipelineVars, arg>>

NextRows == ProcessRow

SpecRows == InitRows /\ [][NextRows]_vars

\* ------------------------------------------------------------------------
\* Two passes of drive.ProcessGoogleDriveFiles for one film, one after the
\* other
\* ------------------------------------------------------------------------

PassesOfModel == 2
FaultsPerPass == 1

InitRetry ==
    /\ FreshStart
    /\ arg = [fn |-> "ProcessGoogleDriveFiles", filmName |-> TituloOriginal,
              enlacesStr |-> UrlFolders]
    /\ ret = [done |-> FALSE, passes |-> 0, disk |-> {}, snapshot |-> NoRec,
              prev |-> NoDrv, prevFailed |-> {}, last |-> NoDrv, lastFailed |-> {}]

\* the files of the download set whose download failed in a pass: the
\* sub-directory could not be made, or DownloadFile returned an error
FailedDownloads(filesToDownload, F) ==
    {filesToDownload[i].ID :
        i \in {j \in 1..Len(filesToDownload) :
                  \/ MkdirFails(F, filesToDownload[j])
                  \/ DownloadOutcome(F, filesToDownload[j]) # "ok"}}

\* one pass over the remote tree as it is at that time
RetryPass ==
    /\ ~ret.done
    /\ \E t \in TreeIds :
       \E F \in SubsetsUpTo(DriveFaultPoints(Trees[t]), FaultsPerPass) :
       \E r \in {DrivePass(arg.filmName, arg.enlacesStr, Trees[t], F,
                           ret.disk, ret.snapshot)} :
          ret' = [done |-> ret.passes + 1 = PassesOfModel,
                  passes |-> ret.passes + 1,
                  disk |-> r.disk,
                  snapshot |-> r.snapshot,
                  prev |-> ret.last,
                  prevFailed |-> ret.lastFailed,
                  last |-> [r EXCEPT !.disk = {}, !.snapshot = ret.snapshot],
                  lastFailed |-> FailedDownloads(r.filesToDownload, F)]
    /\ UNCHANGED <<pipelineVars, arg>>

NextRetry == RetryPass

SpecRetry == InitRetry /\ [][NextRetry]_vars

\* ------------------------------------------------------------------------
\* Properties
\* ------------------------------------------------------------------------

FilmID == SanitizeFilename(TituloOriginal)

PersistedMap == store[<<FilmID, "wp_images">>]
PersistedLedger == store[<<FilmID, "wordpress_media">>]
PersistedSnapshot == store[<<FilmID, "drive_files">>]
PersistedRecord == store[<<FilmID, "wordpress">>]

SeqToSet(q) == {q[i] : i \in 1..Len(q)}

UploadedIds(u) == {u.uploadedMedia[i].id : i \in 1..Len(u.uploadedMedia)}

\* C1: at-most-once upload - for every film and source file name the backend
\* holds at most one medium whose upload the client saw succeed, whatever
\* failed in the runs so far and whatever local files share a base name.
C1_AtMostOnceUpload ==
    \A i, j \in 1..Len(wpMedia) :
        ( /\ wpMedia[i].acked /\ wpMedia[j].acked
          /\ wpMedia[i].filmID = wpMedia[j].filmID
          /\ wpMedia[i].fileName = wpMedia[j].fileName ) => i = j

TwoMediaPasses ==
    /\ prevUp.op = "media" /\ up.op = "media"
    /\ prevUp.err = "nil" /\ up.err = "nil"
    /\ up.webFiles = prevUp.webFiles
    /\ prevUp.mapSaved
    /\ up.mapRead = "ok"

SecondPassIdle ==
    /\ Len(up.uploadedMedia) = 0
    /\ up.failed = 0
    /\ up.ids = prevUp.ids

C4_PostIdImmutable ==
    (ups.op = "upsert" /\ ups.recBefore.found) =>
        /\ ups.call # "create"
        /\ ups.call = "update" => ups.callID = ups.recBefore.data.PostID
        /\ ups.err = "nil" => ups.call = "update"
        /\ PersistedRecord.found
        /\ PersistedRecord.data.PostID = ups.recBefore.data.PostID

C4_Witness ==
    /\ ups.op = "upsert"
    /\ ups.recBefore.found
    /\ ups.call = "update"
    /\ ups.err = "nil"
    /\ ups.answeredID # ups.callID
    /\ PersistedRecord.data.Slug # ups.recBefore.data.Slug

\* the filtered scan set, stated on the scan: the image files whose folder
\* name, trimmed and lower-cased, is on the allow-list
AllowListed(f) ==
    /\ f.FolderName # <<>>
    /\ ToLower(TrimSpace(f.FolderName)) \in AllowedFolders

ImageOnAllowList(f) ==
    /\ \E m \in {MimeJpeg, MimeJpg, MimePng, MimeGif, MimeWebp, MimeBmp, MimeTiff} :
          ToLower(f.MimeType) = m
    /\ AllowListed(f)

\* C5: snapshot replace - after a drive stage that returned no error the
\* persisted snapshot is exactly the filtered scan (the scanned image files
\* of allow-listed folders, in scan order), whatever snapshot was persisted
\* before and whichever downloads failed.
C5_SnapshotReplace ==
    (drv.op = "drive" /\ drv.err = "nil") =>
        /\ PersistedSnapshot.found
        /\ PersistedSnapshot.data = SelectSeq(drv.allFiles, ImageOnAllowList)

C5_Witness ==
    /\ drv.op = "drive" /\ drv.err = "nil"
    /\ drv.snapshot.found
    /\ SeqIds(drv.snapshot.data) = {"a", "b"}
    /\ SeqIds(PersistedSnapshot.data) = {"b", "c"}

\* a scanned file that is in the download set, was optimised in this pass,
\* or is in the persisted snapshot
Handled(f) ==
    \/ f \in SeqToSet(drv.filesToDownload)
    \/ f \in SeqToSet(drv.attempts)
    \/ f.ID \in drv.resized
    \/ f \in SeqToSet(PersistedSnapshot.data)

\* C6 as stated: no scanned file whose folder name is not, compared
\* case-insensitively, one of the four allow-listed names is downloaded,
\* optimised or persisted.
C6_AllowListAsStated ==
    drv.op = "drive" =>
        \A i \in 1..Len(drv.allFiles) :
            ToLower(drv.allFiles[i].FolderName) \notin AllowedFolders
                => ~Handled(drv.allFiles[i])

\* C6 amended: no scanned file whose folder name is not, with surrounding
\* white space trimmed and compared case-insensitively, one of the four
\* allow-listed names is downloaded, optimised or persisted; files directly
\* in the scan root are among them.
C6_AllowList ==
    /\ drv.op = "drive" =>
          \A i \in 1..Len(drv.allFiles) :
              ~AllowListed(drv.allFiles[i]) => ~Handled(drv.allFiles[i])
    /\ \A i \in 1..Len(PersistedSnapshot.data) : AllowListed(PersistedSnapshot.data[i])

C6_Witness ==
    /\ drv.op = "drive"
    /\ \E i \in 1..Len(drv.allFiles) : drv.allFiles[i].FolderName = <<>>
    /\ \E i \in 1..Len(drv.allFiles) : drv.allFiles[i].FolderName = NameRandom
    /\ Len(drv.attempts) > 0
    /\ drv.resized # {}
    /\ Len(PersistedSnapshot.data) > 0

\* C7: in every reconciliation pass the download set is a subset of the
\* filtered set and no remote id has more than one download attempted.
C7_DownloadSet ==
    drv.op = "drive" =>
        /\ SeqToSet(drv.filesToDownload) \subseteq SeqToSet(drv.filteredFiles)
        /\ SeqToSet(drv.attempts) \subseteq SeqToSet(drv.filesToDownload)
        /\ \A i, j \in 1..Len(drv.attempts) :
              drv.attempts[i].ID = drv.attempts[j].ID => i = j

C7_Witness ==
    /\ drv.op = "drive"
    /\ Len(drv.filteredFiles) = 2
    /\ Len(drv.filesToDownload) = 1
    /\ Len(drv.attempts) = 1
    /\ Len(drv.allFiles) > Len(drv.filteredFiles)

\* C8: every successful media stage returns the ids of the map persisted
\* before the pass united with the ids uploaded in the pass.
C8_ReturnsAllKnownIds ==
    (up.op = "media" /\ up.err = "nil") =>
        up.ids = MapValues(up.mapBefore.data) \cup UploadedIds(up)

\* C9: after any media stage every entry of the map persisted before the
\* pass is still persisted with the same media id.
C9_MapMerged ==
    up.op = "media" =>
        \A fileName \in DOMAIN up.mapBefore.data :
            /\ PersistedMap.found
            /\ fileName \in DOMAIN PersistedMap.data
            /\ PersistedMap.data[fileName] = up.mapBefore.data[fileName]

\* C10: after a media stage that uploaded at least one medium and saved the
\* ledger, the persisted ledger is the ledger persisted before the pass
\* followed by one entry per medium uploaded in the pass.
C10_LedgerAppended ==
    (up.op = "media" /\ pc = "upsert" /\ up.ledgerSaved) =>
        PersistedLedger.data = up.ledgerBefore.data \o up.uploadedMedia

\* C11: a failed backend create or update call aborts the film - the upsert
\* stage returns an error, the persisted content record is the one found
\* before the stage, no template file is written and ProcessSingleFilm
\* returns an error.
C11_CallFailureAborts ==
    (ups.op = "upsert" /\ ups.callOutcome \in {"fail", "lost"}) =>
        /\ ups.err \in {"failed to create WordPress post", "failed to update WordPress post"}
        /\ PersistedRecord = ups.recBefore
        /\ ups.templatePostID = 0
        /\ result = "failed to create/update WordPress project"
        /\ pc = "idle"

C11_Witness ==
    /\ ups.op = "upsert"
    /\ ups.call = "update"
    /\ ups.callOutcome = "fail"
    /\ ups.recBefore.found

\* C12: persisting the content record is best-effort - when the backend call
\* succeeded and the store write of the record fails, the upsert stage still
\* writes the template document and returns success.
C12_RecordSaveBestEffort ==
    (ups.op = "upsert" /\ ups.callOutcome = "ok" /\ ups.recordSave = "fail") =>
        /\ ups.err = "nil"
        /\ ups.templatePostID # 0

\* C13: a failed film never stops the run - while rows remain the next
\* ProcessSingleFilm call can start whatever the earlier calls returned, and
\* whenever no call is in progress successCount + errorCount = processedCount,
\* which at the end is the number of filtered rows.
C13_RunContinues ==
    /\ pc = "idle" => successCount + errorCount = processedCount
    /\ pc # "idle" => successCount + errorCount = processedCount - 1
    /\ (pc = "idle" /\ processedCount < MaxRuns) => ENABLED BeginFilm
    /\ processedCount <= MaxRuns

C13_Witness ==
    /\ pc = "idle"
    /\ processedCount = MaxRuns
    /\ errorCount >= 1
    /\ successCount >= 1
    /\ upsertLog # <<>>
    /\ upsertLog[1].err # "nil"

\* the folder that lists the child id
ParentOf(tree, id) ==
    CHOOSE fo \in DOMAIN tree : \E i \in 1..Len(tree[fo]) : tree[fo][i].Id = id

\* id lies below a folder other than the root whose listing failed
RECURSIVE BelowFailed(_, _, _)
BelowFailed(tree, failList, id) ==
    LET p == ParentOf(tree, id)
    IN  IF p = RootFolder THEN FALSE
        ELSE p \in failList \/ BelowFailed(tree, failList, p)

Scanned == drv.op = "drive" /\ drv.err # "could not extract folder ID"

\* C14: scanner failure policy - a listing failure of the root folder ends
\* the scan with an error and no files; a listing failure of a subfolder at
\* any depth drops exactly the files below that subfolder, every other file
\* of the tree is returned once and the scan returns without error.
C14_ScannerFailurePolicy ==
    Scanned =>
        IF RootFolder \in drv.failList
        THEN drv.err = "failed to list files" /\ drv.allFiles = <<>>
        ELSE /\ drv.err # "failed to list files"
             /\ SeqIds(drv.allFiles) =
                    {id \in TreeFileIds(Trees[drv.treeId]) :
                        ~BelowFailed(Trees[drv.treeId], drv.failList, id)}
             /\ Len(drv.allFiles) = Cardinality(SeqIds(drv.allFiles))

\* the listing of the first subfolder of the first tree failed: its two files
\* are dropped, the file of its sibling and the file of the root are returned
C14_Witness ==
    /\ Scanned
    /\ drv.treeId = 1
    /\ drv.failList = {"f1"}
    /\ SeqIds(drv.allFiles) = {"c", "r"}
    /\ drv.err = "nil"

\* C15: a store read that fails with anything but not-found is never taken
\* for a first run - the drive stage classifies no file of the persisted
\* snapshot as new, the media stage uploads no file the persisted map already
\* holds and uploads nothing when the record cannot be read, and the upsert
\* stage makes no backend call when the record cannot be read.
C15_ReadErrorIsNotFirstRun ==
    /\ (drv.op = "drive" /\ drv.readOutcome = "error") =>
          drv.newCount <= Cardinality(SeqIds(drv.filteredFiles) \ SeqIds(drv.snapshot.data))
    /\ (up.op = "media" /\ up.mapRead = "error") =>
          \A i \in 1..Len(up.uploadedMedia) :
              PathBase(up.uploadedMedia[i].file_path) \notin DOMAIN up.mapBefore.data
    /\ (up.op = "media" /\ up.err = "failed to load WordPress metadata") =>
          up.uploadedMedia = <<>>
    /\ (ups.op = "upsert" /\ ups.err = "failed to get metadata") =>
          ups.call = "none"

Returned(fn) == ret.done /\ arg.fn = fn

\* C16: for every title CreateWordPressSlug returns a string of the
\* characters a-z, 0-9 and hyphen only, without two hyphens in a row, without
\* a leading or trailing hyphen, and of at most 50 characters.
C16_SlugWellFormed ==
    Returned("CreateWordPressSlug") =>
        LET slug == ret.value
        IN  /\ \A i \in 1..Len(slug) : IsSlugChar(slug[i]) \/ slug[i] = "-"
            /\ \A i \in 1..(Len(slug) - 1) : ~(slug[i] = "-" /\ slug[i + 1] = "-")
            /\ slug # <<>> => (slug[1] # "-" /\ slug[Len(slug)] # "-")
            /\ Len(slug) <= MaxSlugLen

\* the payload the upsert stage builds from the ids in the order ids when
\* the store and the backend answer as in the current state, the calls of F
\* failing
PayloadFor(ids, F) ==
    UpsertPass(obj, Year, ids, F, store, wpPosts, wpMedia, disk[FilmID]).post

\* C17: deterministic update - with the film fields, the persisted state and
\* the backend answers fixed, the update sends one payload: title, status,
\* slug, category ids and featured-media id are the same for every order in
\* which the media stage may hand over the ids of its map.
C17_DeterministicUpdate ==
    (pc = "upsert" /\ PersistedRecord.found) =>
        \A F \in SubsetsUpTo(UpsertFaultPoints(imageIds), Budget) :
        \A returned \in Orderings(SeqToSet(imageIds)) :
            PayloadFor(returned, F) = PayloadFor(imageIds, F)

FlagSpellings == { <<"S","I">>, <<"s","i">>, <<"S","i">>, <<"s","I">> }

DirectorsReturned == Returned("GenerateDiviTemplateDataWithWordPress")

\* the names of the blocks returned, in their order
BlockNames == [k \in 1..Len(ret.value) |-> ret.value[k].name]

\* the flag is set: one block per name, in the order of the field, for two
\* and three names between separators and for a separator with a name on one
\* side only; no block for a blank field; one block for a field without a
\* separator, whatever letters y its names hold
SplitAtSeparators ==
    LET field == arg.Direccion
    IN  /\ \A a, b \in DirectorNamesOfModel : \A sep \in Separators :
               field = a \o sep \o b => BlockNames = <<a, b>>
        /\ \A a, b, c \in DirectorNamesOfModel : \A s1, s2 \in Separators :
               field = a \o s1 \o b \o s2 \o c => BlockNames = <<a, b, c>>
        /\ \A a \in DirectorNamesOfModel : \A sep \in Separators :
               (field = a \o sep \/ field = sep \o a) => BlockNames = <<a>>
        /\ \A a \in DirectorNamesOfModel : field = a => BlockNames = <<a>>
        /\ \A a, b \in DirectorNamesOfModel : \A sep \in NoSeparators :
               field = a \o sep \o b => BlockNames = <<field>>
        /\ TrimSpace(field) = <<>> => BlockNames = <<>>
        /\ field = AnaPerez \o <<" ","y"," ">> \o LuisGomez
               => BlockNames = <<AnaPerez, LuisGomez>>

Classified(outcome) == drv.op = "drive" /\ drv.readOutcome = outcome

InDownloadSet(f) == f.ID \in SeqIds(drv.filesToDownload)

\* C19: with a snapshot loaded, a filtered file whose id is not in the
\* snapshot is new and downloaded, one in the snapshot and absent from its
\* local path is missing and downloaded, one in the snapshot and present is
\* unchanged and not downloaded; every filtered file has one of the three
\* classifications, so the three counts add up to the size of the filtered
\* set.
C19_Classification ==
    Classified("ok") =>
        /\ Len(drv.class) = Len(drv.filteredFiles)
        /\ \A i \in 1..Len(drv.filteredFiles) :
              LET f == drv.filteredFiles[i]
                  inSnapshot == f.ID \in SeqIds(drv.snapshot.data)
                  onDisk == f.ID \in drv.present
              IN  /\ ~inSnapshot => (drv.class[i] = "new" /\ InDownloadSet(f))
                  /\ (inSnapshot /\ ~onDisk) => (drv.class[i] = "missing" /\ InDownloadSet(f))
                  /\ (inSnapshot /\ onDisk) => (drv.class[i] = "unchanged" /\ ~InDownloadSet(f))
        /\ drv.newCount + drv.missingCount + drv.existingCount = Len(drv.filteredFiles)

\* C20: without a persisted snapshot every filtered file is new and in the
\* download set, whether or not its local path holds a file; the count of new
\* files is the size of the filtered set, the other two counts are 0.
C20_FirstRun ==
    Classified("notfound") =>
        /\ \A i \in 1..Len(drv.filteredFiles) : drv.class[i] = "new"
        /\ drv.filesToDownload = drv.filteredFiles
        /\ drv.newCount = Len(drv.filteredFiles)
        /\ drv.missingCount = 0
        /\ drv.existingCount = 0

\* no snapshot is persisted (its save failed in the run before) and both
\* filtered files are on disk already
C20_Witness ==
    /\ Classified("notfound")
    /\ Len(drv.filteredFiles) = 2
    /\ Cardinality(drv.present) = 2
    /\ ~drv.snapshot.found
    /\ drv.err = "nil"

\* ProcessSingleFilm has returned nil after an upsert stage that called the
\* backend
CompleteRun ==
    /\ pc = "idle"
    /\ result = "nil"
    /\ ups.op = "upsert"
    /\ ups.callOutcome = "ok"

\* C21: after a successful create or update every persisted ledger entry of
\* the film whose owning post id was 0 carries the post id of the film, so
\* that after a complete run no persisted ledger entry has the post id 0.
C21_LedgerBackfilled ==
    (CompleteRun /\ PersistedLedger.found) =>
        \A i \in 1..Len(PersistedLedger.data) : PersistedLedger.data[i].post_id # 0

\* what the last media stage did with each of its web files
MediaOutcomes == IF up.op = "media" THEN up.outcomes ELSE <<>>

\* the upload of web file i of the last media stage failed
UploadFailedAt(i) == MediaOutcomes[i] \in {"fail", "lost"}

WebFileName(i) == PathBase(up.webFiles[i])

\* the map the media stage loaded
LoadedMap == IF up.mapRead = "ok" THEN up.mapBefore.data ELSE <<>>

NoLedgerEntry(i) ==
    \A k \in 1..Len(up.uploadedMedia) : up.uploadedMedia[k].file_path # up.webFiles[i]

\* C22 as stated: after a failed upload every remaining web file is still
\* attempted in the pass, the name of the failed file is not in the map, the
\* file has no ledger entry, and the stage returns no error.
C22_UploadFailureAsStated ==
    \A i \in 1..Len(MediaOutcomes) : UploadFailedAt(i) =>
        /\ Len(MediaOutcomes) = Len(up.webFiles)
        /\ \A j \in (i + 1)..Len(MediaOutcomes) : MediaOutcomes[j] \in {"ok", "fail", "lost"}
        /\ WebFileName(i) \notin DOMAIN up.imageMetadataMap
        /\ NoLedgerEntry(i)
        /\ up.err = "nil"

\* C22 amended: after a failed upload every remaining web file is handled -
\* skipped when the loaded map holds its name, attempted otherwise; the name
\* of the failed file is in the map only when another file of that name was
\* uploaded in the pass; the failed file has no ledger entry and the stage
\* returns no error.
C22_UploadFailure ==
    \A i \in 1..Len(MediaOutcomes) : UploadFailedAt(i) =>
        /\ Len(MediaOutcomes) = Len(up.webFiles)
        /\ \A j \in (i + 1)..Len(MediaOutcomes) :
              MediaOutcomes[j] = "skipped" <=> WebFileName(j) \in DOMAIN LoadedMap
        /\ WebFileName(i) \in DOMAIN up.imageMetadataMap =>
              \E j \in 1..Len(MediaOutcomes) :
                  j # i /\ WebFileName(j) = WebFileName(i) /\ MediaOutcomes[j] = "ok"
        /\ NoLedgerEntry(i)
        /\ up.err = "nil"

\* the first of two uploads failed, the second was made and succeeded
C22_Witness ==
    /\ up.op = "media"
    /\ up.outcomes = <<"fail", "ok">>
    /\ WebFileName(1) # WebFileName(2)
    /\ DOMAIN up.imageMetadataMap = {WebFileName(2)}
    /\ up.err = "nil"

\* the ids handed to the last upsert stage whose medium the backend returned
\* and whose title, file name or alt text holds a keyword
KeywordMedia ==
    {id \in SeqToSet(ups.imageIds) :
        /\ id \notin ups.getFails
        /\ id \in 1..Len(wpMedia)
        /\ MediaMatchesKeyword(wpMedia[id])}

\* C23: of a non-empty list of media ids the featured medium is one that
\* holds a keyword when some retrievable medium does, and the first id of the
\* list otherwise; a single uploaded poster image is selected.
C23_FeaturedSelection ==
    (ups.op = "upsert" /\ Len(ups.imageIds) > 0) =>
        IF KeywordMedia # {}
        THEN ups.post.FeaturedMedia \in KeywordMedia
        ELSE ups.post.FeaturedMedia = ups.imageIds[1]

\* the list starts with a medium without keyword; the poster behind it is
\* selected
C23_Witness ==
    /\ ups.op = "upsert"
    /\ Len(ups.imageIds) = 2
    /\ ups.imageIds[1] \notin KeywordMedia
    /\ ups.post.FeaturedMedia = ups.imageIds[2]

TemplateReturned == Returned("GenerateDiviShortcodeTemplate")

\* the part of the main content a piece of fixed markup belongs to: 1 the
\* credits, 2 the synopsis, 3 the content notes, 4 the director rows, 5 the
\* gallery; 0 and 6 for the opening and the closing of the section
PartOf(piece) ==
    IF piece = Lit("et_pb_section main") THEN 0
    ELSE IF piece = Lit("SINOPSIS") THEN 2
    ELSE IF piece \in {Lit("et_pb_text NdC"), Lit("/et_pb_text NdC")} THEN 3
    ELSE IF piece \in {Lit("et_pb_row director"), Lit("/et_pb_row director")} THEN 4
    ELSE IF piece \in {Lit("et_pb_gallery"), Lit("/et_pb_gallery")} THEN 5
    ELSE IF piece = Lit("/et_pb_section main") THEN 6
    ELSE 1

Markup(doc) == SelectSeq(doc, LAMBDA piece : DOMAIN piece = {"lit"})

Count(doc, piece) == Cardinality({i \in 1..Len(doc) : doc[i] = piece})

\* C24: the document is the output of the registered components one after
\* the other in the order of their registration; the standard template
\* registers header, menu, main content and footer in this order; inside the
\* main content credits, synopsis, content notes, director rows and gallery
\* follow each other in this order.
C24_CompositionOrder ==
    TemplateReturned =>
        LET components == ret.components
            main == Markup(Render(components[3]))
            data == arg.templateData
        IN  /\ [k \in 1..Len(components) |-> components[k].kind] =
                   <<"HeaderComponent", "MenuComponent", "MainContentComponent",
                     "FooterComponent">>
            /\ ret.value = Render(components[1]) \o Render(components[2])
                           \o Render(components[3]) \o Render(components[4])
            /\ \A i, j \in 1..Len(main) : i < j => PartOf(main[i]) <= PartOf(main[j])
            /\ \A part \in 0..6 \ {3, 4} : \E i \in 1..Len(main) : PartOf(main[i]) = part
            /\ Count(main, Lit("et_pb_row director")) = Len(data.Directors)
            /\ Count(main, Lit("et_pb_text NdC")) = (IF data.ContentNotes = <<>> THEN 0 ELSE 1)
            /\ Count(main, Lit("Direccion")) = (IF data.Directors = <<>> THEN 0 ELSE 1)

\* a template with credits, synopsis, content notes, two directors and a
\* gallery, composed
C24_Witness ==
    /\ TemplateReturned
    /\ Len(arg.templateData.Directors) = 2
    /\ arg.templateData.ContentNotes # <<>>
    /\ arg.templateData.Synopsis # <<>>
    /\ Count(ret.value, Lit("Production")) = 1
    /\ Count(ret.value, Lit("et_pb_row director")) = 2
    /\ ret.value[1] = Lit("et_pb_fullwidth_header")
    /\ ret.value[Len(ret.value)] = Lit("/et_pb_section footer")

ScanReturned == Returned("ListAllFilesRecursively")

NameOf(tree, id) ==
    LET siblings == tree[ParentOf(tree, id)]
    IN  siblings[CHOOSE i \in 1..Len(siblings) : siblings[i].Id = id].Name

\* the names of the folders from below the scan root down to this folder
RECURSIVE Lineage(_, _)
Lineage(tree, folder) ==
    IF folder = RootFolder THEN <<>>
    ELSE Lineage(tree, ParentOf(tree, folder)) \o <<NameOf(tree, folder)>>

\* C25: every file a scan returns carries as folder path the names of the
\* folders from the scan root down to its parent, joined by slashes (empty
\* for a file of the root), and as folder name the name of its parent
\* folder, whatever the folder names are, a name with a slash included.
C25_ScannerLineage ==
    ScanReturned =>
        \A i \in 1..Len(ret.files) :
            LET file == ret.files[i]
                lineage == Lineage(arg.tree, ParentOf(arg.tree, file.ID))
            IN  /\ file.FolderPath = Join(lineage, <<Slash>>)
                /\ lineage # <<>> => file.FolderName = lineage[Len(lineage)]

KeysReturned == Returned("ProcessSingleFilm")

\* C26: within one call of ProcessSingleFilm the drive stage, the media
\* stage and the upsert stage derive the same entity id, for every row, a
\* row without TÍTULO ORIGINAL included.
C26_StableEntityKey ==
    KeysReturned => ret.drive = ret.media /\ ret.media = ret.upsert

RowsReturned == Returned("processFilteredObjects")

\* C27: the rows of a sheet share no persisted state; with nothing persisted
\* before, every row is created as a post of its own and keeps a post id of
\* its own, also when two rows carry the same title or titles that sanitize
\* to the same token.
C27_PerEntityIsolation ==
    RowsReturned =>
        /\ \A i \in 1..Len(ret.log) : ret.log[i].call = "create" /\ ret.log[i].err = "nil"
        /\ Len(ret.posts) = Len(arg.filteredObjects)
        /\ \A i, j \in 1..Len(ret.log) :
              i # j => /\ ret.log[i].postID # ret.log[j].postID
                       /\ ret.log[i].filmID # ret.log[j].filmID

\* a second pass has run after a pass that returned without error
SecondPass == Returned("ProcessGoogleDriveFiles") /\ ret.prev.err = "nil"

\* the places of the filtered scan of the second pass that hold a file whose
\* download failed in the first pass and which is still not on disk
StillAbsent ==
    {i \in 1..Len(ret.last.filteredFiles) :
        /\ ret.last.filteredFiles[i].ID \in ret.prevFailed
        /\ ret.last.filteredFiles[i].ID \notin ret.last.present}

\* C28: a file whose download failed in a pass that completed is, in the
\* next pass that finds it in the filtered scan and not on disk, classified
\* missing and put into the download set again.
C28_DownloadRetry ==
    SecondPass =>
        \A i \in StillAbsent :
            /\ ret.last.class[i] = "missing"
            /\ ret.last.filteredFiles[i].ID \in SeqIds(ret.last.filesToDownload)

\* C29: no step deletes or clears the persisted post record of the film;
\* the record comes into being only in an upsert stage whose create call
\* succeeded, and then holds the post id that create returned.
C29_UpsertMonotonic ==
    [][ /\ PersistedRecord.found => PersistedRecord'.found
        /\ (~PersistedRecord.found /\ PersistedRecord'.found) =>
              /\ pc = "upsert"
              /\ ups'.call = "create"
              /\ ups'.callOutcome = "ok"
              /\ Len(wpPosts') = Len(wpPosts) + 1
              /\ PersistedRecord'.data.PostID = wpPosts'[Len(wpPosts')].ID
              /\ PersistedRecord'.data.PostID = ups'.answeredID ]_vars

\* a record created in one run is still there, with its post id, after a
\* later run whose upsert stage failed
C29_Witness ==
    /\ Len(upsertLog) = 2
    /\ upsertLog[1].call = "create"
    /\ upsertLog[1].err = "nil"
    /\ upsertLog[2].err # "nil"
    /\ PersistedRecord.found
    /\ PersistedRecord.data.PostID = upsertLog[1].answeredID

DriveSkippedOrDone == drv = NoDrv \/ drv.err = "nil"

\* C30: the stages of a film run in the order directory creation, drive
\* reconcile, media upload, post upsert; once a stage has returned an error
\* no later stage runs for the film in this run.
C30_StageOrdering ==
    /\ pc = "drive"  => drv = NoDrv /\ up = NoUp /\ ups = NoUps
    /\ pc = "media"  => DriveSkippedOrDone /\ up = NoUp /\ ups = NoUps
    /\ pc = "upsert" => DriveSkippedOrDone /\ up.op = "media" /\ up.err = "nil" /\ ups = NoUps
    /\ pc = "idle" =>
          /\ result = "failed to create directory" => drv = NoDrv /\ up = NoUp /\ ups = NoUps
          /\ (drv # NoDrv /\ drv.err # "nil") =>
                /\ result = "failed to process Google Drive files"
                /\ up = NoUp /\ ups = NoUps
          /\ up # NoUp => DriveSkippedOrDone
          /\ (up # NoUp /\ up.err # "nil") =>
                /\ result = "failed to upload media to WordPress"
                /\ ups = NoUps
          /\ ups # NoUps => DriveSkippedOrDone /\ up.op = "media" /\ up.err = "nil"

\* a run whose drive stage could not save its snapshot has ended without a
\* media stage and without an upsert stage, after an earlier run that went
\* through all stages
C30_Witness ==
    /\ pc = "idle"
    /\ runs = 2
    /\ upsertLog # <<>>
    /\ drv # NoDrv
    /\ drv.err = "failed to save Drive media metadata"
    /\ up = NoUp
    /\ ups = NoUps

====
